---------------------------- MODULE Spec2Model ----------------------------
(***************************************************************************)
(* Validator registry (ValidatorDB), delegation ledger (DelegationDB),     *)
(* trust scorer (TrustScoreManager), heartbeat manager (HeartbeatManager)  *)
(* and peer discovery (PeerDiscoveryManager) of the WATTx node.            *)
(*                                                                         *)
(* Amounts are counted in whole coins (COIN = 10^8 satoshi), so that the   *)
(* consensus minimum stake and the minimum delegation keep their ratio and *)
(* fit the model checker's integers.  Heights are block heights.           *)
(***************************************************************************)
EXTENDS Integers, Sequences, FiniteSets, TLC

---------------------------------------------------------------------------
(* Program constants *)

\* validatordb.h: static constexpr int64_t MIN_POOL_FEE / MAX_POOL_FEE / DEFAULT_POOL_FEE
MIN_POOL_FEE == 0
MAX_POOL_FEE == 10000
DEFAULT_POOL_FEE == 1000
DEFAULT_JAIL_BLOCKS == 86400
\* validatordb.h: static constexpr size_t MAX_VALIDATOR_NAME
MAX_VALIDATOR_NAME == 64
\* validatordb.h: static constexpr int UNBONDING_PERIOD
UNBONDING_PERIOD == 259200
\* validatordb.cpp, IsEligibleForStaking: the literal maturity of 2000 blocks
VALIDATOR_MATURITY == 2000
\* chainparams (regtest): consensus.nMinValidatorStake = 100 * COIN
nMinValidatorStake == 100
\* chainparams (main): consensus.nMinValidatorStake = 100000 * COIN
nMinValidatorStakeMain == 100000
\* CAmount is int64_t and counts satoshi: the product of two amounts of a and b whole
\* coins is a * b * COIN^2, which fits while a * b <= (2^63 - 1) \div 10^16
MAX_COIN_PRODUCT == 922
\* delegation.h: MIN_DELEGATION_AMOUNT = 1000 * COIN
MIN_DELEGATION_AMOUNT == 1000
\* delegation.h: DELEGATION_MATURITY, DELEGATION_UNBONDING_PERIOD
DELEGATION_MATURITY == 500
DELEGATION_UNBONDING_PERIOD == 259200
\* heartbeat_net.h: MAX_SEEN_HEARTBEATS = 10000, scaled to a set the model can fill
MAX_SEEN_HEARTBEATS == 4
\* consensus parameters nHeartbeatInterval and nUptimeWindow
nHeartbeatInterval == 10
nUptimeWindow == 100
\* consensus parameters n<Tier>UptimeThreshold, per mille (trust_score.h: 95%+, 97%+,
\* 99%+, 99.9%+ uptime)
nBronzeUptimeThreshold == 950
nSilverUptimeThreshold == 970
nGoldUptimeThreshold == 990
nPlatinumUptimeThreshold == 999

---------------------------------------------------------------------------
(* Bounds of the model *)

\* the largest block reward split between a validator and its delegators
MaxBlockReward == 4
\* the largest delegators' share distributed, and the largest pendingRewards followed
MaxReward == 1
\* how far above the minimum a stake or a delegation amount may lie
MaxExtra == 1
\* the largest self stake and delegated stake of the entries whose reward is split
MaxStake == 3
\* the number of delegation records the ledger may hold
MaxDelegations == 2

---------------------------------------------------------------------------
(* Identities, outpoints, keys *)

ValidatorIds == {"v1", "v2"}
DelegatorIds == {"d1", "d2"}
\* COutPoint(): the null outpoint
NullOutpoint == "null"
Outpoints == {"o1", "o2"}
\* the threads that notify the heartbeat manager of a new height
Threads == {"t1", "t2"}
\* CKeyID(): the null key id (RewardClaimRequest.validatorId "empty for all")
NullId == "nullid"
\* CService(): the address that is not IsValid()
InvalidAddress == "noaddr"
Addresses == {"a1", "a2"}

\* C++ integer division truncates toward zero
CDiv(a, b) ==
    IF b = 0 THEN 0
    ELSE IF (a >= 0) = (b > 0) THEN (IF a >= 0 THEN a ELSE -a) \div (IF b > 0 THEN b ELSE -b)
    ELSE -((IF a >= 0 THEN a ELSE -a) \div (IF b > 0 THEN b ELSE -b))

\* a partial map m with key k set to v (std::map operator[] assignment)
MapPut(m, k, v) == [x \in (DOMAIN m) \cup {k} |-> IF x = k THEN v ELSE m[x]]
\* a partial map m without key k (std::map::erase)
MapErase(m, k) == [x \in (DOMAIN m) \ {k} |-> m[x]]
EmptyMap == [x \in {} |-> 0]

---------------------------------------------------------------------------
(* State *)

VARIABLES
    validators,        \* ValidatorDB::validators      : id -> ValidatorEntry
    outpointIndex,     \* ValidatorDB::outpointIndex   : outpoint -> id
    currentHeight,     \* ValidatorDB::currentHeight
    delegations,       \* DelegationDB::delegations    : delegation id -> DelegationEntry
    delegatorIndex,    \* DelegationDB::delegatorIndex : delegator -> sequence of ids
    validatorIndex,    \* DelegationDB::validatorIndex : validator -> sequence of ids
    dlOutpointIndex,   \* DelegationDB::outpointIndex  : outpoint -> delegation id
    dlCurrentHeight,   \* DelegationDB::currentHeight
    dlDeadlocked,      \* cs_delegations is held by a thread that waits for it again
    tsValidators,      \* TrustScoreManager::validators : id -> ValidatorInfo
    tsCurrentHeight,   \* TrustScoreManager::currentHeight
    seenHeartbeats,    \* HeartbeatManager::m_seen_heartbeats : set of heartbeat hashes
    hmDeadlocked,      \* cs_heartbeat is held by a thread that waits for it again
    knownValidatorPeers, \* PeerDiscoveryManager::knownValidatorPeers
    pendingAdditions,  \* PeerDiscoveryManager::pendingAdditions
    connman,           \* HeartbeatManager::m_connman is set
    addedNodes,        \* the addresses handed to CConnman::AddNode, in order
    validatorKey,      \* HeartbeatManager::m_validator_key (NullId until SetValidatorKey)
    hmLastHeartbeatHeight, \* HeartbeatManager::m_last_heartbeat_height
    created,           \* the heartbeats BroadcastHeartbeat has built and signed, in order
    checked,           \* per thread: the height for which ShouldBroadcastHeartbeat has
                       \* just answered true to it, and -1 otherwise
    inside,            \* per thread: the TrustScoreManager call it is executing for the
                       \* heartbeat manager, with what it was handed
    counted,           \* history: the hash of the first heartbeat the scorer counted for
                       \* HeartbeatManager::ProcessHeartbeat, <<>> before (no field of
                       \* the code)
    reward,            \* the reward split under evaluation: its inputs and results
    deactivatedAt,     \* history: id -> the height at which the DEACTIVATE update that
                       \* put the validator in Unbonding was accepted (no field of the code)
    ret                \* the operation that ran last, its subject and what it returned

vrVars == <<validators, outpointIndex, currentHeight>>
dlVars == <<delegations, delegatorIndex, validatorIndex, dlOutpointIndex,
            dlCurrentHeight, dlDeadlocked>>
tsVars == <<tsValidators, tsCurrentHeight>>
hmVars == <<seenHeartbeats, hmDeadlocked, connman, addedNodes>>
pdVars == <<knownValidatorPeers, pendingAdditions>>
\* the local broadcast path of the heartbeat manager
broadcastVars == <<validatorKey, hmLastHeartbeatHeight, created, checked, inside>>
\* what the registry and the ledger never touch
trustVars == <<tsValidators, tsCurrentHeight, seenHeartbeats, hmDeadlocked,
               knownValidatorPeers, pendingAdditions, connman, addedNodes, reward,
               deactivatedAt, broadcastVars, counted>>
\* what the trust components never touch
stakeVars == <<validators, outpointIndex, currentHeight, delegations, delegatorIndex,
               validatorIndex, dlOutpointIndex, dlCurrentHeight, dlDeadlocked, reward,
               deactivatedAt>>
\* (the operation's name comes first: the results of two operations are compared
\* field by field only when they are results of the same operation)
vars == <<ret.op, validators, outpointIndex, currentHeight, delegations, delegatorIndex,
          validatorIndex, dlOutpointIndex, dlCurrentHeight, dlDeadlocked,
          tsValidators, tsCurrentHeight, seenHeartbeats, hmDeadlocked,
          knownValidatorPeers, pendingAdditions, connman, addedNodes, reward,
          deactivatedAt, broadcastVars, counted, ret>>

ValidatorStatus == {"PENDING", "ACTIVE", "INACTIVE", "JAILED", "UNBONDING"}
DelegationStatus == {"PENDING", "ACTIVE", "UNBONDING", "WITHDRAWN"}
ValidatorUpdateType == {"UPDATE_FEE", "UPDATE_NAME", "DEACTIVATE", "REACTIVATE",
                        "INCREASE_STAKE", "DECREASE_STAKE"}

\* ValidatorEntry() followed by the caller's assignments (registervalidator RPC):
\* the entry a caller hands to RegisterValidator.  The name is kept by its size.
NewValidatorEntry(id, stake, fee, regHeight, status, nameLen, outpoint) ==
    [ validatorId        |-> id,
      validatorPubKey    |-> id,
      stakeAmount        |-> stake,
      poolFeeRate        |-> fee,
      registrationHeight |-> regHeight,
      lastActiveHeight   |-> 0,
      status             |-> status,
      validatorName      |-> nameLen,
      stakeOutpoint      |-> outpoint,
      jailReleaseHeight  |-> 0,
      totalDelegated     |-> 0,
      delegatorCount     |-> 0 ]

\* What the last call left behind: its name, its subject, an amount it was given (arg),
\* the value it returned (ok for a bool, value for an amount) and whether it returned
\* (req is the entry, update or request it was handed, where it was handed one;
\* prior is, for a reward claim that directly follows a claim for the same delegator
\* and validator filter, the amount that claim returned, and -1 otherwise)
\* (held is the largest set of the components' mutexes the call held at one moment)
NoRequest == <<>>
\* A thread that is in no TrustScoreManager call (raced: another thread was in the
\* scorer during the call)
Outside == [op |-> "none", req |-> NoRequest, raced |-> FALSE]

\* The mutex an operation takes on entry: LOCK(cs_validators) in ValidatorDB,
\* LOCK(cs_delegations) in DelegationDB, LOCK(cs_heartbeat) in HeartbeatManager,
\* LOCK(cs_peers) in PeerDiscoveryManager.  TrustScoreManager has no mutex, and
\* HeartbeatManager's SetConnman and ProcessValidatorRegistration take none.
OwnMutex(op) ==
    IF op \in {"RegisterValidator", "ProcessUpdate", "UpdateStakeOutpoint",
               "SetValidatorStatus", "JailValidator", "UnjailValidator",
               "VRProcessBlock", "VRUnserialize"}
    THEN {"cs_validators"}
    ELSE IF op \in {"ProcessDelegation", "ProcessUndelegation", "ProcessRewardClaim",
                    "AddRewards", "DistributeBlockReward", "SetDelegationStatus",
                    "UpdateDelegationOutpoint", "DLProcessBlock", "DLUnserialize"}
    THEN {"cs_delegations"}
    ELSE IF op \in {"SetValidatorKey", "ShouldBroadcastHeartbeat", "BroadcastHeartbeat",
                    "HMProcessHeartbeat", "HMOnNewBlock"}
    THEN {"cs_heartbeat"}
    ELSE IF op \in {"ProcessValidatorAddress", "GetPendingPeers", "MarkPeerAdded"}
    THEN {"cs_peers"}
    ELSE {}

Result(op, id, ok) ==
    [op |-> op, id |-> id, arg |-> 0, req |-> NoRequest, prior |-> -1, ok |-> ok,
     value |-> 0, returned |-> TRUE, held |-> OwnMutex(op)]
ResultValue(op, id, value) ==
    [op |-> op, id |-> id, arg |-> 0, req |-> NoRequest, prior |-> -1, ok |-> TRUE,
     value |-> value, returned |-> TRUE, held |-> OwnMutex(op)]
Blocked(op, id) ==
    [op |-> op, id |-> id, arg |-> 0, req |-> NoRequest, prior |-> -1, ok |-> FALSE,
     value |-> 0, returned |-> FALSE, held |-> OwnMutex(op)]

---------------------------------------------------------------------------
(* ValidatorEntry *)

GetTotalStake(e) == e.stakeAmount + e.totalDelegated

MeetsMinimumStake(e) == GetTotalStake(e) >= nMinValidatorStake

IsEligibleForStaking(e, height) ==
    /\ e.status = "ACTIVE"
    /\ MeetsMinimumStake(e)
    /\ ~(height - e.registrationHeight < VALIDATOR_MATURITY)

\* a * b, computed in CAmount, does not overflow
ProductFits(a, b) == a * b <= MAX_COIN_PRODUCT /\ a * b >= -MAX_COIN_PRODUCT

\* Signed overflow is undefined: where a product does not fit, the amount computed
\* from it is the exact one or a wrong one (-1 stands for the wrong values)
AmountOutcomes(exact, fits) == IF fits THEN {exact} ELSE {exact, -1}

CalculateValidatorReward(e, blockReward) ==
    IF e.totalDelegated = 0 THEN blockReward
    ELSE LET totalStake == GetTotalStake(e) IN
         IF totalStake = 0 THEN 0
         ELSE LET validatorStakeShare == CDiv(blockReward * e.stakeAmount, totalStake)
                  delegatorsShare == blockReward - validatorStakeShare
                  poolFee == CDiv(delegatorsShare * e.poolFeeRate, 10000)
              IN  validatorStakeShare + poolFee

CalculateDelegatorsReward(e, blockReward) ==
    IF e.totalDelegated = 0 THEN 0
    ELSE LET totalStake == GetTotalStake(e) IN
         IF totalStake = 0 THEN 0
         ELSE LET delegatorsShare == CDiv(blockReward * e.totalDelegated, totalStake)
                  poolFee == CDiv(delegatorsShare * e.poolFeeRate, 10000)
              IN  delegatorsShare - poolFee

---------------------------------------------------------------------------
(* ValidatorDB *)

\* The value RegisterValidator returns for an entry
RegisterValidatorOk(entry) ==
    /\ entry.validatorId \notin DOMAIN validators
    /\ ~(entry.poolFeeRate < MIN_POOL_FEE \/ entry.poolFeeRate > MAX_POOL_FEE)
    /\ ~(entry.stakeAmount < nMinValidatorStake)
    /\ ~(entry.validatorName > MAX_VALIDATOR_NAME)

RegisterValidator(entry) ==
    /\ IF RegisterValidatorOk(entry)
       THEN /\ validators' = MapPut(validators, entry.validatorId, entry)
            /\ outpointIndex' = IF entry.stakeOutpoint # NullOutpoint
                                THEN MapPut(outpointIndex, entry.stakeOutpoint, entry.validatorId)
                                ELSE outpointIndex
       ELSE UNCHANGED <<validators, outpointIndex>>
    /\ UNCHANGED trustVars
    /\ ret' = [Result("RegisterValidator", entry.validatorId, RegisterValidatorOk(entry))
                 EXCEPT !.req = [poolFeeRate   |-> entry.poolFeeRate,
                                 validatorName |-> entry.validatorName]]
    /\ UNCHANGED <<currentHeight, delegations, delegatorIndex, validatorIndex,
                   dlOutpointIndex, dlCurrentHeight, dlDeadlocked>>

\* ValidatorUpdate::Verify(entry.validatorPubKey): the update carries the key that signed it
UpdateVerify(update, pubkey) == update.signer = pubkey

\* ProcessUpdate's switch without the range test of UPDATE_FEE
ApplyUpdateAnyFee(entry, update) ==
    IF update.updateType = "UPDATE_FEE"
    THEN [ok |-> TRUE, entry |-> [entry EXCEPT !.poolFeeRate = update.newValue]]
    ELSE [ok |-> TRUE, entry |-> entry]

\* The entry ProcessUpdate leaves for an update that passed the signature check,
\* and whether it returns true
ApplyUpdate(entry, update) ==
    CASE update.updateType = "UPDATE_FEE" ->
           IF update.newValue < MIN_POOL_FEE \/ update.newValue > MAX_POOL_FEE
           THEN [ok |-> FALSE, entry |-> entry]
           ELSE [ok |-> TRUE, entry |-> [entry EXCEPT !.poolFeeRate = update.newValue]]
      [] update.updateType = "UPDATE_NAME" ->
           IF update.newName > MAX_VALIDATOR_NAME
           THEN [ok |-> FALSE, entry |-> entry]
           ELSE [ok |-> TRUE, entry |-> [entry EXCEPT !.validatorName = update.newName]]
      [] update.updateType = "DEACTIVATE" ->
           [ok |-> TRUE, entry |-> [entry EXCEPT !.status = "UNBONDING"]]
      [] update.updateType = "REACTIVATE" ->
           IF entry.status = "JAILED" /\ currentHeight < entry.jailReleaseHeight
           THEN [ok |-> FALSE, entry |-> entry]
           ELSE IF entry.status = "INACTIVE" \/ entry.status = "JAILED"
                THEN [ok |-> TRUE, entry |-> [entry EXCEPT !.status = "ACTIVE"]]
                ELSE [ok |-> TRUE, entry |-> entry]
      [] update.updateType = "INCREASE_STAKE" ->
           [ok |-> TRUE,
            entry |-> [entry EXCEPT !.stakeAmount = entry.stakeAmount + update.newValue]]
      [] update.updateType = "DECREASE_STAKE" ->
           IF update.newValue > entry.stakeAmount
           THEN [ok |-> FALSE, entry |-> entry]
           ELSE IF entry.stakeAmount - update.newValue < nMinValidatorStake
                THEN [ok |-> FALSE, entry |-> entry]
                ELSE [ok |-> TRUE,
                      entry |-> [entry EXCEPT !.stakeAmount = entry.stakeAmount - update.newValue]]

\* The history of accepted deactivations, kept for the validators that are still
\* Unbonding in vals
Deactivations(hist, vals) ==
    [id \in {i \in DOMAIN hist : i \in DOMAIN vals /\ vals[i].status = "UNBONDING"} |->
        hist[id]]

\* what the registry leaves alone apart from the ledger
trustOnlyVars == <<tsValidators, tsCurrentHeight, seenHeartbeats, hmDeadlocked,
                   knownValidatorPeers, pendingAdditions, connman, addedNodes, reward,
                   broadcastVars, counted>>

ProcessUpdateOk(update) ==
    /\ update.validatorId \in DOMAIN validators
    /\ UpdateVerify(update, validators[update.validatorId].validatorPubKey)
    /\ ApplyUpdate(validators[update.validatorId], update).ok

ProcessUpdate(update) ==
    /\ validators' = IF ProcessUpdateOk(update)
                     THEN [validators EXCEPT ![update.validatorId] =
                              ApplyUpdate(validators[update.validatorId], update).entry]
                     ELSE validators
    /\ deactivatedAt' =
         IF /\ ProcessUpdateOk(update)
            /\ update.updateType = "DEACTIVATE"
            /\ validators[update.validatorId].status # "UNBONDING"
         THEN MapPut(deactivatedAt, update.validatorId, currentHeight)
         ELSE Deactivations(deactivatedAt, validators')
    /\ UNCHANGED trustOnlyVars
    /\ ret' = [Result("ProcessUpdate", update.validatorId, ProcessUpdateOk(update))
                 EXCEPT !.req = update]
    /\ UNCHANGED <<outpointIndex, currentHeight, delegations, delegatorIndex, validatorIndex,
                   dlOutpointIndex, dlCurrentHeight, dlDeadlocked>>

UpdateStakeOutpoint(validatorId, newOutpoint) ==
    /\ IF validatorId \in DOMAIN validators
       THEN LET old == validators[validatorId].stakeOutpoint
                erased == IF old # NullOutpoint THEN MapErase(outpointIndex, old)
                          ELSE outpointIndex
            IN  /\ validators' = [validators EXCEPT ![validatorId].stakeOutpoint = newOutpoint]
                /\ outpointIndex' = IF newOutpoint # NullOutpoint
                                    THEN MapPut(erased, newOutpoint, validatorId)
                                    ELSE erased
       ELSE UNCHANGED <<validators, outpointIndex>>
    /\ UNCHANGED trustVars
    /\ ret' = Result("UpdateStakeOutpoint", validatorId, validatorId \in DOMAIN validators)
    /\ UNCHANGED <<currentHeight, delegations, delegatorIndex, validatorIndex,
                   dlOutpointIndex, dlCurrentHeight, dlDeadlocked>>

SetValidatorStatus(validatorId, status) ==
    /\ validators' =
         IF validatorId \in DOMAIN validators
         THEN [validators EXCEPT ![validatorId] =
                 [@ EXCEPT !.status = status,
                           !.lastActiveHeight = IF status = "ACTIVE" THEN currentHeight ELSE @]]
         ELSE validators
    /\ deactivatedAt' = Deactivations(deactivatedAt, validators')
    /\ UNCHANGED trustOnlyVars
    /\ ret' = Result("SetValidatorStatus", validatorId, validatorId \in DOMAIN validators)
    /\ UNCHANGED <<outpointIndex, currentHeight, delegations, delegatorIndex, validatorIndex,
                   dlOutpointIndex, dlCurrentHeight, dlDeadlocked>>

JailValidator(validatorId, jailBlocks) ==
    /\ validators' =
         IF validatorId \in DOMAIN validators
         THEN [validators EXCEPT ![validatorId] =
                 [@ EXCEPT !.status = "JAILED",
                           !.jailReleaseHeight = currentHeight + jailBlocks]]
         ELSE validators
    /\ deactivatedAt' = Deactivations(deactivatedAt, validators')
    /\ UNCHANGED trustOnlyVars
    /\ ret' = Result("JailValidator", validatorId, validatorId \in DOMAIN validators)
    /\ UNCHANGED <<outpointIndex, currentHeight, delegations, delegatorIndex, validatorIndex,
                   dlOutpointIndex, dlCurrentHeight, dlDeadlocked>>

UnjailValidatorOk(validatorId) ==
    /\ validatorId \in DOMAIN validators
    /\ validators[validatorId].status = "JAILED"
    /\ ~(currentHeight < validators[validatorId].jailReleaseHeight)

UnjailValidator(validatorId) ==
    /\ validators' =
         IF UnjailValidatorOk(validatorId)
         THEN [validators EXCEPT ![validatorId] =
                 [@ EXCEPT !.status = "ACTIVE", !.jailReleaseHeight = 0]]
         ELSE validators
    /\ deactivatedAt' = Deactivations(deactivatedAt, validators')
    /\ UNCHANGED trustOnlyVars
    /\ ret' = Result("UnjailValidator", validatorId, UnjailValidatorOk(validatorId))
    /\ UNCHANGED <<outpointIndex, currentHeight, delegations, delegatorIndex, validatorIndex,
                   dlOutpointIndex, dlCurrentHeight, dlDeadlocked>>

\* The validator map after AddDelegation(validatorId, amount), and its return value
AddDelegationOk(vals, validatorId, amount) == validatorId \in DOMAIN vals

AddDelegation(vals, validatorId, amount) ==
    IF AddDelegationOk(vals, validatorId, amount)
    THEN [vals EXCEPT ![validatorId] =
            [@ EXCEPT !.totalDelegated = @ + amount, !.delegatorCount = @ + 1]]
    ELSE vals

\* The validator map after RemoveDelegation(validatorId, amount), and its return value
RemoveDelegationOk(vals, validatorId, amount) ==
    /\ validatorId \in DOMAIN vals
    /\ ~(amount > vals[validatorId].totalDelegated)

RemoveDelegation(vals, validatorId, amount) ==
    IF RemoveDelegationOk(vals, validatorId, amount)
    THEN [vals EXCEPT ![validatorId] =
            [@ EXCEPT !.totalDelegated = @ - amount,
                      !.delegatorCount = IF @ > 0 THEN @ - 1 ELSE @]]
    ELSE vals

\* ValidatorDB::ProcessBlock
VRProcessBlock(height) ==
    /\ currentHeight' = height
    /\ validators' =
         [id \in DOMAIN validators |->
            IF /\ validators[id].status = "UNBONDING"
               /\ height - validators[id].lastActiveHeight >= UNBONDING_PERIOD
            THEN [validators[id] EXCEPT !.status = "INACTIVE"]
            ELSE validators[id]]
    /\ deactivatedAt' = Deactivations(deactivatedAt, validators')
    /\ UNCHANGED trustOnlyVars
    /\ ret' = Result("VRProcessBlock", NullId, TRUE)
    /\ UNCHANGED <<outpointIndex, delegations, delegatorIndex, validatorIndex,
                   dlOutpointIndex, dlCurrentHeight, dlDeadlocked>>

---------------------------------------------------------------------------
(* DelegationDB *)

Range(seq) == {seq[i] : i \in 1..Len(seq)}

\* DelegationEntry::GetDelegationId: H(delegatorId, validatorId, delegationHeight)
GetDelegationId(delegatorId, validatorId, delegationHeight) ==
    <<delegatorId, validatorId, delegationHeight>>

\* DelegationRequest::Verify(): checked against the key the request itself carries
DelegationRequestVerify(request) == request.signer = request.delegatorPubKey

\* The entry ProcessDelegation builds from a request
NewDelegationEntry(request, outpoint) ==
    [ delegatorId          |-> request.delegatorId,
      validatorId          |-> request.validatorId,
      amount               |-> request.amount,
      delegationHeight     |-> request.height,
      lastRewardHeight     |-> request.height,
      status               |-> "PENDING",
      delegationOutpoint   |-> outpoint,
      unbondingStartHeight |-> 0,
      pendingRewards       |-> 0 ]

ProcessDelegationOk(request) ==
    /\ DelegationRequestVerify(request)
    /\ ~(request.amount < MIN_DELEGATION_AMOUNT)
    /\ request.validatorId \in DOMAIN validators
    /\ ~(validators[request.validatorId].status # "ACTIVE")
    /\ GetDelegationId(request.delegatorId, request.validatorId, request.height)
          \notin DOMAIN delegations

ProcessDelegation(request, outpoint) ==
    LET delegationId == GetDelegationId(request.delegatorId, request.validatorId, request.height)
    IN
    /\ ~dlDeadlocked
    /\ IF ProcessDelegationOk(request)
       THEN /\ delegations' = MapPut(delegations, delegationId,
                                     NewDelegationEntry(request, outpoint))
            /\ delegatorIndex' = [delegatorIndex EXCEPT ![request.delegatorId] =
                                     Append(@, delegationId)]
            /\ validatorIndex' = [validatorIndex EXCEPT ![request.validatorId] =
                                     Append(@, delegationId)]
            /\ dlOutpointIndex' = IF outpoint # NullOutpoint
                                  THEN MapPut(dlOutpointIndex, outpoint, delegationId)
                                  ELSE dlOutpointIndex
            /\ validators' = AddDelegation(validators, request.validatorId, request.amount)
       ELSE UNCHANGED <<delegations, delegatorIndex, validatorIndex, dlOutpointIndex,
                        validators>>
    /\ UNCHANGED trustVars
    \* g_validator_db->GetValidator, and AddDelegation after it, take cs_validators
    \* under the LOCK(cs_delegations) of the first line
    /\ ret' = [Result("ProcessDelegation", delegationId, ProcessDelegationOk(request))
                 EXCEPT !.req = request,
                        !.held = IF /\ DelegationRequestVerify(request)
                                    /\ ~(request.amount < MIN_DELEGATION_AMOUNT)
                                 THEN @ \cup {"cs_validators"} ELSE @]
    /\ UNCHANGED <<outpointIndex, currentHeight, dlCurrentHeight, dlDeadlocked>>

\* The loop of ProcessUndelegation over the delegator's ids, in index order.
\* st = [dels, vals, remaining, any]: the ledger, the registry, remainingToUndelegate
\* and anyUndelegated so far.
RECURSIVE UndelegateLoop(_, _, _)
UndelegateLoop(ids, request, st) ==
    IF ids = <<>> THEN st
    ELSE LET delegationId == Head(ids) IN
         IF delegationId \notin DOMAIN st.dels
         THEN UndelegateLoop(Tail(ids), request, st)
         ELSE LET entry == st.dels[delegationId] IN
              IF entry.validatorId # request.validatorId
              THEN UndelegateLoop(Tail(ids), request, st)
              ELSE IF entry.status # "ACTIVE"
              THEN UndelegateLoop(Tail(ids), request, st)
              ELSE LET toUndelegate ==
                         IF request.amount = 0 THEN entry.amount
                         ELSE IF st.remaining >= entry.amount THEN entry.amount
                         ELSE st.remaining
                       remaining ==
                         IF request.amount = 0 THEN st.remaining
                         ELSE IF st.remaining >= entry.amount THEN st.remaining - entry.amount
                         ELSE 0
                       next == [ dels |-> [st.dels EXCEPT ![delegationId] =
                                            [@ EXCEPT !.status = "UNBONDING",
                                                      !.unbondingStartHeight = dlCurrentHeight]],
                                 vals |-> RemoveDelegation(st.vals, request.validatorId,
                                                           toUndelegate),
                                 remaining |-> remaining,
                                 any |-> TRUE ]
                   IN  IF remaining = 0 THEN next
                       ELSE UndelegateLoop(Tail(ids), request, next)

UndelegationResult(request) ==
    UndelegateLoop(delegatorIndex[request.delegatorId], request,
                   [dels |-> delegations, vals |-> validators,
                    remaining |-> request.amount, any |-> FALSE])

ProcessUndelegation(request) ==
    /\ ~dlDeadlocked
    /\ delegations' = UndelegationResult(request).dels
    /\ validators' = UndelegationResult(request).vals
    /\ UNCHANGED trustVars
    \* g_validator_db->RemoveDelegation takes cs_validators inside the loop
    /\ ret' = [Result("ProcessUndelegation", request.delegatorId,
                       UndelegationResult(request).any)
                 EXCEPT !.req = request,
                        !.held = IF UndelegationResult(request).any
                                 THEN @ \cup {"cs_validators"} ELSE @]
    /\ UNCHANGED <<outpointIndex, currentHeight, delegatorIndex, validatorIndex,
                   dlOutpointIndex, dlCurrentHeight, dlDeadlocked>>

\* The records ProcessRewardClaim empties: the delegator's records (of the validator
\* asked for, if one is) that hold rewards
Claimed(request) ==
    { id \in Range(delegatorIndex[request.delegatorId]) \cap DOMAIN delegations :
        /\ ~(request.validatorId # NullId /\ delegations[id].validatorId # request.validatorId)
        /\ delegations[id].pendingRewards > 0 }

RECURSIVE SumPendingRewards(_, _)
SumPendingRewards(ids, dels) ==
    IF ids = {} THEN 0
    ELSE LET id == CHOOSE x \in ids : TRUE
         IN  dels[id].pendingRewards + SumPendingRewards(ids \ {id}, dels)

\* What the step before returned, when it was a claim for the same delegator and filter
PriorClaim(request) ==
    IF /\ ret.op = "ProcessRewardClaim"
       /\ ret.req.delegatorId = request.delegatorId
       /\ ret.req.validatorId = request.validatorId
    THEN ret.value
    ELSE -1

\* ProcessRewardClaim paying out without emptying the records it pays from
PayWithoutZeroing(request) ==
    /\ ~dlDeadlocked
    /\ UNCHANGED delegations
    /\ UNCHANGED trustVars
    /\ ret' = [ResultValue("ProcessRewardClaim", request.delegatorId,
                            SumPendingRewards(Claimed(request), delegations))
                 EXCEPT !.req = request, !.prior = PriorClaim(request)]
    /\ UNCHANGED <<validators, outpointIndex, currentHeight, delegatorIndex, validatorIndex,
                   dlOutpointIndex, dlCurrentHeight, dlDeadlocked>>

ProcessRewardClaim(request) ==
    /\ ~dlDeadlocked
    /\ delegations' = [id \in DOMAIN delegations |->
                         IF id \in Claimed(request)
                         THEN [delegations[id] EXCEPT !.pendingRewards = 0,
                                                      !.lastRewardHeight = dlCurrentHeight]
                         ELSE delegations[id]]
    /\ UNCHANGED trustVars
    /\ ret' = [ResultValue("ProcessRewardClaim", request.delegatorId,
                            SumPendingRewards(Claimed(request), delegations))
                 EXCEPT !.req = request, !.prior = PriorClaim(request)]
    /\ UNCHANGED <<validators, outpointIndex, currentHeight, delegatorIndex, validatorIndex,
                   dlOutpointIndex, dlCurrentHeight, dlDeadlocked>>

RECURSIVE SumActiveAmount(_, _)
SumActiveAmount(ids, dels) ==
    IF ids = <<>> THEN 0
    ELSE (IF Head(ids) \in DOMAIN dels /\ dels[Head(ids)].status = "ACTIVE"
          THEN dels[Head(ids)].amount ELSE 0) + SumActiveAmount(Tail(ids), dels)

GetTotalDelegationForValidator(validatorId) ==
    SumActiveAmount(validatorIndex[validatorId], delegations)

GetDelegatorCountForValidator(validatorId) ==
    Cardinality({ delegations[id].delegatorId :
                    id \in { x \in Range(validatorIndex[validatorId]) \cap DOMAIN delegations :
                               delegations[x].status = "ACTIVE" } })

AddRewards(delegationId, rewards) ==
    /\ ~dlDeadlocked
    /\ delegations' = IF delegationId \in DOMAIN delegations
                      THEN [delegations EXCEPT ![delegationId].pendingRewards = @ + rewards]
                      ELSE delegations
    /\ UNCHANGED trustVars
    /\ ret' = Result("AddRewards", delegationId, delegationId \in DOMAIN delegations)
    /\ UNCHANGED <<validators, outpointIndex, currentHeight, delegatorIndex, validatorIndex,
                   dlOutpointIndex, dlCurrentHeight, dlDeadlocked>>

\* The share DistributeBlockReward credits to one record
DelegationShare(delegatorsShare, amount, totalDelegation) ==
    CDiv(delegatorsShare * amount, totalDelegation)

\* DistributeBlockReward takes cs_delegations and, when the share is not zero, calls
\* GetTotalDelegationForValidator, which takes cs_delegations again on the same thread.
\* Mutex is std::mutex: locking it twice is undefined.  This action is the outcome in
\* which the second LOCK is granted (and every call with a zero share).  The product
\* delegatorsShare * amount may overflow: the shares are then the exact ones, or
\* (wrapped) the wrong ones of the records whose product does not fit.
DistributeBlockReward(validatorId, delegatorsShare) ==
    LET totalDelegation == GetTotalDelegationForValidator(validatorId)
        share(id, wrapped) ==
            IF wrapped /\ ~ProductFits(delegatorsShare, delegations[id].amount)
            THEN -1
            ELSE DelegationShare(delegatorsShare, delegations[id].amount,
                                 totalDelegation)
    IN
    /\ ~dlDeadlocked
    /\ \E wrapped \in BOOLEAN :
          delegations' =
            IF delegatorsShare = 0 \/ totalDelegation = 0 THEN delegations
            ELSE [id \in DOMAIN delegations |->
                    IF /\ id \in Range(validatorIndex[validatorId])
                       /\ delegations[id].status = "ACTIVE"
                       /\ share(id, wrapped) > 0
                    THEN [delegations[id] EXCEPT !.pendingRewards =
                            @ + share(id, wrapped)]
                    ELSE delegations[id]]
    /\ UNCHANGED trustVars
    /\ ret' = [Result("DistributeBlockReward", validatorId, TRUE)
                 EXCEPT !.arg = delegatorsShare]
    /\ UNCHANGED <<validators, outpointIndex, currentHeight, delegatorIndex, validatorIndex,
                   dlOutpointIndex, dlCurrentHeight, dlDeadlocked>>

\* The other outcome: the thread waits for the mutex it holds.  It never returns and
\* cs_delegations is never released, so every later ledger operation waits too.
DistributeBlockRewardRelock(validatorId, delegatorsShare) ==
    /\ ~dlDeadlocked
    /\ delegatorsShare # 0
    /\ dlDeadlocked' = TRUE
    /\ UNCHANGED trustVars
    /\ ret' = [Blocked("DistributeBlockReward", validatorId) EXCEPT !.arg = delegatorsShare]
    /\ UNCHANGED <<validators, outpointIndex, currentHeight, delegations, delegatorIndex,
                   validatorIndex, dlOutpointIndex, dlCurrentHeight>>

SetDelegationStatus(delegationId, status) ==
    /\ ~dlDeadlocked
    /\ delegations' = IF delegationId \in DOMAIN delegations
                      THEN [delegations EXCEPT ![delegationId].status = status]
                      ELSE delegations
    /\ UNCHANGED trustVars
    /\ ret' = Result("SetDelegationStatus", delegationId, delegationId \in DOMAIN delegations)
    /\ UNCHANGED <<validators, outpointIndex, currentHeight, delegatorIndex, validatorIndex,
                   dlOutpointIndex, dlCurrentHeight, dlDeadlocked>>

UpdateDelegationOutpoint(delegationId, newOutpoint) ==
    /\ ~dlDeadlocked
    /\ IF delegationId \in DOMAIN delegations
       THEN LET old == delegations[delegationId].delegationOutpoint
                erased == IF old # NullOutpoint THEN MapErase(dlOutpointIndex, old)
                          ELSE dlOutpointIndex
            IN  /\ delegations' = [delegations EXCEPT
                                     ![delegationId].delegationOutpoint = newOutpoint]
                /\ dlOutpointIndex' = IF newOutpoint # NullOutpoint
                                      THEN MapPut(erased, newOutpoint, delegationId)
                                      ELSE erased
       ELSE UNCHANGED <<delegations, dlOutpointIndex>>
    /\ UNCHANGED trustVars
    /\ ret' = Result("UpdateDelegationOutpoint", delegationId,
                     delegationId \in DOMAIN delegations)
    /\ UNCHANGED <<validators, outpointIndex, currentHeight, delegatorIndex, validatorIndex,
                   dlCurrentHeight, dlDeadlocked>>

\* ProcessBlock completing every unbonding one block short of the period
ProcessBlockOneBlockEarly(height) ==
    /\ ~dlDeadlocked
    /\ dlCurrentHeight' = height
    /\ delegations' =
         [id \in DOMAIN delegations |->
            IF /\ delegations[id].status = "PENDING"
               /\ height - delegations[id].delegationHeight >= DELEGATION_MATURITY
            THEN [delegations[id] EXCEPT !.status = "ACTIVE"]
            ELSE IF /\ delegations[id].status = "UNBONDING"
                    /\ height - delegations[id].unbondingStartHeight
                          >= DELEGATION_UNBONDING_PERIOD - 1
            THEN [delegations[id] EXCEPT !.status = "WITHDRAWN"]
            ELSE delegations[id]]
    /\ UNCHANGED trustVars
    /\ ret' = Result("DLProcessBlock", NullId, TRUE)
    /\ UNCHANGED <<validators, outpointIndex, currentHeight, delegatorIndex, validatorIndex,
                   dlOutpointIndex, dlDeadlocked>>

\* DelegationDB::ProcessBlock
DLProcessBlock(height) ==
    /\ ~dlDeadlocked
    /\ dlCurrentHeight' = height
    /\ delegations' =
         [id \in DOMAIN delegations |->
            IF /\ delegations[id].status = "PENDING"
               /\ height - delegations[id].delegationHeight >= DELEGATION_MATURITY
            THEN [delegations[id] EXCEPT !.status = "ACTIVE"]
            ELSE IF /\ delegations[id].status = "UNBONDING"
                    /\ height - delegations[id].unbondingStartHeight
                          >= DELEGATION_UNBONDING_PERIOD
            THEN [delegations[id] EXCEPT !.status = "WITHDRAWN"]
            ELSE delegations[id]]
    /\ UNCHANGED trustVars
    /\ ret' = Result("DLProcessBlock", NullId, TRUE)
    /\ UNCHANGED <<validators, outpointIndex, currentHeight, delegatorIndex, validatorIndex,
                   dlOutpointIndex, dlDeadlocked>>

\* std::map<uint256, DelegationEntry> iterates in the order of the ids' values, which
\* are hashes and have nothing to do with the order of insertion: a fixed order over
\* the ids of the model
DelegationIdRank(id) ==
    (IF id[1] = "d1" THEN 1 ELSE 0) + 2 * ((IF id[2] = "v1" THEN 1 ELSE 0) + 2 * (id[3] + 1))

\* the keys of a map in iteration order, rank[k] being the place of key k's value
RECURSIVE InRankOrder(_, _)
InRankOrder(ids, rank) ==
    IF ids = {} THEN <<>>
    ELSE LET first == CHOOSE x \in ids : \A y \in ids : rank[x] <= rank[y]
         IN  <<first>> \o InRankOrder(ids \ {first}, rank)

DelegationsInOrder(dels) ==
    InRankOrder(DOMAIN dels, [id \in DOMAIN dels |-> DelegationIdRank(id)])

\* Using<CustomUintFormatter<1>>(obj.status): the enumerator's value in one byte
DelegationStatusCode(status) ==
    CASE status = "PENDING" -> 0 [] status = "ACTIVE" -> 1
      [] status = "UNBONDING" -> 2 [] status = "WITHDRAWN" -> 3

DelegationStatusOfCode(code) ==
    CHOOSE status \in DelegationStatus : DelegationStatusCode(status) = code

\* SERIALIZE_METHODS(DelegationEntry): the fields in stream order, and back
SerializeDelegationEntry(entry) ==
    <<entry.delegatorId, entry.validatorId, entry.amount, entry.delegationHeight,
      entry.lastRewardHeight, DelegationStatusCode(entry.status),
      entry.delegationOutpoint, entry.unbondingStartHeight, entry.pendingRewards>>

UnserializeDelegationEntry(fields) ==
    [ delegatorId          |-> fields[1],
      validatorId          |-> fields[2],
      amount               |-> fields[3],
      delegationHeight     |-> fields[4],
      lastRewardHeight     |-> fields[5],
      status               |-> DelegationStatusOfCode(fields[6]),
      delegationOutpoint   |-> fields[7],
      unbondingStartHeight |-> fields[8],
      pendingRewards       |-> fields[9] ]

\* DelegationDB::Serialize: s << delegations, the pairs of the map in iteration order
DLSerialize(dels) ==
    LET ids == DelegationsInOrder(dels)
    IN  [i \in 1 .. Len(ids) |-> <<ids[i], SerializeDelegationEntry(dels[ids[i]])>>]

\* The loop of Unserialize over the map read from the stream.
\* st = [dels, byDelegator, byValidator, byOutpoint]
RECURSIVE RebuildIndexes(_, _)
RebuildIndexes(ids, st) ==
    IF ids = <<>> THEN st
    ELSE LET id == Head(ids)
             entry == st.dels[id]
         IN  RebuildIndexes(Tail(ids),
                [st EXCEPT !.byDelegator[entry.delegatorId] = Append(@, id),
                           !.byValidator[entry.validatorId] = Append(@, id),
                           !.byOutpoint = IF entry.delegationOutpoint # NullOutpoint
                                          THEN MapPut(@, entry.delegationOutpoint, id)
                                          ELSE @])

\* DelegationDB::Unserialize: s >> delegations replaces the map, the three indexes
\* are cleared and rebuilt
DLUnserialize(stream) ==
    LET dels == [id \in {stream[i][1] : i \in 1 .. Len(stream)} |->
                   UnserializeDelegationEntry(
                      (CHOOSE pair \in Range(stream) : pair[1] = id)[2])]
        rebuilt == RebuildIndexes(DelegationsInOrder(dels),
                                  [dels |-> dels,
                                   byDelegator |-> [d \in DelegatorIds |-> <<>>],
                                   byValidator |-> [v \in ValidatorIds |-> <<>>],
                                   byOutpoint |-> EmptyMap])
    IN  /\ ~dlDeadlocked
        /\ delegations' = dels
        /\ delegatorIndex' = rebuilt.byDelegator
        /\ validatorIndex' = rebuilt.byValidator
        /\ dlOutpointIndex' = rebuilt.byOutpoint
        /\ UNCHANGED trustVars
        /\ ret' = Result("DLUnserialize", NullId, TRUE)
        /\ UNCHANGED <<validators, outpointIndex, currentHeight, dlCurrentHeight,
                       dlDeadlocked>>

\* std::map<CKeyID, ValidatorEntry> iterates in the order of the key ids
ValidatorIdRank(id) == IF id = "v1" THEN 0 ELSE 1

ValidatorsInOrder(vals) ==
    InRankOrder(DOMAIN vals, [id \in DOMAIN vals |-> ValidatorIdRank(id)])

ValidatorStatusCode(status) ==
    CASE status = "PENDING" -> 0 [] status = "ACTIVE" -> 1 [] status = "INACTIVE" -> 2
      [] status = "JAILED" -> 3 [] status = "UNBONDING" -> 4

ValidatorStatusOfCode(code) ==
    CHOOSE status \in ValidatorStatus : ValidatorStatusCode(status) = code

\* SERIALIZE_METHODS(ValidatorEntry): the fields in stream order, and back
SerializeValidatorEntry(entry) ==
    <<entry.validatorId, entry.validatorPubKey, entry.stakeAmount, entry.poolFeeRate,
      entry.registrationHeight, entry.lastActiveHeight, ValidatorStatusCode(entry.status),
      entry.validatorName, entry.stakeOutpoint, entry.jailReleaseHeight,
      entry.totalDelegated, entry.delegatorCount>>

UnserializeValidatorEntry(fields) ==
    [ validatorId        |-> fields[1],
      validatorPubKey    |-> fields[2],
      stakeAmount        |-> fields[3],
      poolFeeRate        |-> fields[4],
      registrationHeight |-> fields[5],
      lastActiveHeight   |-> fields[6],
      status             |-> ValidatorStatusOfCode(fields[7]),
      validatorName      |-> fields[8],
      stakeOutpoint      |-> fields[9],
      jailReleaseHeight  |-> fields[10],
      totalDelegated     |-> fields[11],
      delegatorCount     |-> fields[12] ]

\* ValidatorDB::Serialize: s << validators
VRSerialize(vals) ==
    LET ids == ValidatorsInOrder(vals)
    IN  [i \in 1 .. Len(ids) |-> <<ids[i], SerializeValidatorEntry(vals[ids[i]])>>]

\* The loop of ValidatorDB::Unserialize that rebuilds outpointIndex
RECURSIVE RebuildOutpointIndex(_, _, _)
RebuildOutpointIndex(ids, vals, index) ==
    IF ids = <<>> THEN index
    ELSE RebuildOutpointIndex(Tail(ids), vals,
            IF vals[Head(ids)].stakeOutpoint # NullOutpoint
            THEN MapPut(index, vals[Head(ids)].stakeOutpoint, Head(ids))
            ELSE index)

\* ValidatorDB::Unserialize: s >> validators replaces the map, outpointIndex is
\* cleared and rebuilt
VRUnserialize(stream) ==
    LET vals == [id \in {stream[i][1] : i \in 1 .. Len(stream)} |->
                   UnserializeValidatorEntry(
                      (CHOOSE pair \in Range(stream) : pair[1] = id)[2])]
    IN  /\ validators' = vals
        /\ outpointIndex' = RebuildOutpointIndex(ValidatorsInOrder(vals), vals, EmptyMap)
        /\ deactivatedAt' = Deactivations(deactivatedAt, validators')
        /\ UNCHANGED trustOnlyVars
        /\ ret' = Result("VRUnserialize", NullId, TRUE)
        /\ UNCHANGED <<currentHeight, delegations, delegatorIndex, validatorIndex,
                       dlOutpointIndex, dlCurrentHeight, dlDeadlocked>>

---------------------------------------------------------------------------
(* TrustScoreManager *)

\* The ValidatorInfo RegisterValidator stores
NewValidatorInfo(validatorId, stakeAmount, poolFeeRate, height) ==
    [ validatorId         |-> validatorId,
      stakeAmount         |-> stakeAmount,
      poolFeeRate         |-> poolFeeRate,
      registrationHeight  |-> height,
      lastHeartbeatHeight |-> height,
      heartbeatsExpected  |-> 0,
      heartbeatsReceived  |-> 0,
      isActive            |-> TRUE,
      lastKnownAddress    |-> InvalidAddress,
      lastCheckInTime     |-> 0,
      consecutiveCheckIns |-> 0,
      missedCheckIns      |-> 0 ]

TSRegisterValidatorOk(vals, validatorId, stakeAmount, poolFeeRate) ==
    /\ ~(stakeAmount < nMinValidatorStake)
    /\ validatorId \notin DOMAIN vals
    /\ ~(poolFeeRate < 0 \/ poolFeeRate > 10000)

TSRegisterValidator(vals, validatorId, stakeAmount, poolFeeRate, height) ==
    IF TSRegisterValidatorOk(vals, validatorId, stakeAmount, poolFeeRate)
    THEN MapPut(vals, validatorId,
                NewValidatorInfo(validatorId, stakeAmount, poolFeeRate, height))
    ELSE vals

\* TrustScoreManager::UpdatePoolFee
TSUpdatePoolFeeOk(validatorId, newFeeRate) ==
    /\ validatorId \in DOMAIN tsValidators
    /\ ~(newFeeRate < 0 \/ newFeeRate > 10000)

TSUpdatePoolFee(validatorId, newFeeRate) ==
    /\ tsValidators' =
         IF TSUpdatePoolFeeOk(validatorId, newFeeRate)
         THEN [tsValidators EXCEPT ![validatorId] = [@ EXCEPT !.poolFeeRate = newFeeRate]]
         ELSE tsValidators
    /\ ret' = [Result("TSUpdatePoolFee", validatorId,
                       TSUpdatePoolFeeOk(validatorId, newFeeRate))
                 EXCEPT !.arg = newFeeRate]
    /\ UNCHANGED <<tsCurrentHeight, seenHeartbeats, hmDeadlocked, knownValidatorPeers,
                   pendingAdditions, connman, addedNodes>>
    /\ UNCHANGED <<stakeVars, broadcastVars, counted>>

\* ProcessHeartbeat refusing the heartbeat of the block at which the next one is due
TSProcessHeartbeatOkLate(vals, heartbeat, height) ==
    /\ heartbeat.validatorId \in DOMAIN vals
    /\ vals[heartbeat.validatorId].isActive
    /\ ~(height <= vals[heartbeat.validatorId].lastHeartbeatHeight + nHeartbeatInterval)

\* TrustScoreManager::ProcessHeartbeat: its return value and the map it leaves
TSProcessHeartbeatOk(vals, heartbeat, height) ==
    /\ heartbeat.validatorId \in DOMAIN vals
    /\ vals[heartbeat.validatorId].isActive
    /\ ~(height < vals[heartbeat.validatorId].lastHeartbeatHeight + nHeartbeatInterval)

TSProcessHeartbeat(vals, heartbeat, height) ==
    IF TSProcessHeartbeatOk(vals, heartbeat, height)
    THEN [vals EXCEPT ![heartbeat.validatorId] =
            [@ EXCEPT !.heartbeatsReceived = @ + 1, !.lastHeartbeatHeight = height]]
    ELSE vals

\* TrustScoreManager::ProcessHeartbeat called on the scorer itself
ScorerProcessHeartbeat(heartbeat, height) ==
    /\ tsValidators' = TSProcessHeartbeat(tsValidators, heartbeat, height)
    /\ ret' = [Result("TSProcessHeartbeat", heartbeat.validatorId,
                       TSProcessHeartbeatOk(tsValidators, heartbeat, height))
                 EXCEPT !.arg = height]
    /\ UNCHANGED <<tsCurrentHeight, seenHeartbeats, hmDeadlocked, knownValidatorPeers,
                   pendingAdditions, connman, addedNodes>>
    /\ UNCHANGED <<stakeVars, broadcastVars, counted>>

\* TrustScoreManager::DeactivateValidator
TSDeactivateValidator(validatorId) ==
    /\ tsValidators' =
         IF validatorId \in DOMAIN tsValidators
         THEN [tsValidators EXCEPT ![validatorId] = [@ EXCEPT !.isActive = FALSE]]
         ELSE tsValidators
    /\ ret' = Result("TSDeactivateValidator", validatorId,
                     validatorId \in DOMAIN tsValidators)
    /\ UNCHANGED <<tsCurrentHeight, seenHeartbeats, hmDeadlocked, knownValidatorPeers,
                   pendingAdditions, connman, addedNodes>>
    /\ UNCHANGED <<stakeVars, broadcastVars, counted>>

Min(a, b) == IF a < b THEN a ELSE b

UpdateHeartbeatExpectations(vals, height) ==
    [id \in DOMAIN vals |->
       IF ~vals[id].isActive THEN vals[id]
       ELSE LET blocksSinceRegistration == height - vals[id].registrationHeight
                first == IF blocksSinceRegistration > 0
                         THEN CDiv(blocksSinceRegistration, nHeartbeatInterval)
                         ELSE vals[id].heartbeatsExpected
                windowBlocks == Min(blocksSinceRegistration, nUptimeWindow)
            IN  [vals[id] EXCEPT !.heartbeatsExpected =
                    IF windowBlocks > 0 THEN CDiv(windowBlocks, nHeartbeatInterval)
                    ELSE first]]

GetUptimePercentage(info) ==
    IF info.heartbeatsExpected = 0 THEN 1000
    ELSE CDiv(info.heartbeatsReceived * 1000, info.heartbeatsExpected)

\* GetTrustTier with every threshold taken as a strict bound
GetTrustTierAbove(info) ==
    IF ~info.isActive \/ info.stakeAmount < nMinValidatorStake THEN "NONE"
    ELSE LET uptime == GetUptimePercentage(info)
         IN  IF uptime > nPlatinumUptimeThreshold THEN "PLATINUM"
             ELSE IF uptime > nGoldUptimeThreshold THEN "GOLD"
             ELSE IF uptime > nSilverUptimeThreshold THEN "SILVER"
             ELSE IF uptime > nBronzeUptimeThreshold THEN "BRONZE"
             ELSE "NONE"

\* ValidatorInfo::GetTrustTier
GetTrustTier(info) ==
    IF ~info.isActive \/ info.stakeAmount < nMinValidatorStake THEN "NONE"
    ELSE LET uptime == GetUptimePercentage(info)
         IN  IF uptime >= nPlatinumUptimeThreshold THEN "PLATINUM"
             ELSE IF uptime >= nGoldUptimeThreshold THEN "GOLD"
             ELSE IF uptime >= nSilverUptimeThreshold THEN "SILVER"
             ELSE IF uptime >= nBronzeUptimeThreshold THEN "BRONZE"
             ELSE "NONE"

\* TrustScoreManager::GetValidatorTier
GetValidatorTier(validatorId) ==
    /\ ret' = ResultValue("GetValidatorTier", validatorId,
                          IF validatorId \in DOMAIN tsValidators
                          THEN GetTrustTier(tsValidators[validatorId])
                          ELSE "NONE")
    /\ UNCHANGED <<tsValidators, tsCurrentHeight, seenHeartbeats, hmDeadlocked,
                   knownValidatorPeers, pendingAdditions, connman, addedNodes>>
    /\ UNCHANGED <<stakeVars, broadcastVars, counted>>

---------------------------------------------------------------------------
(* PeerDiscoveryManager *)

IsValid(address) == address # InvalidAddress

\* ProcessValidatorAddress without the test for a known peer
ProcessValidatorAddressOkAgain(known, address) == IsValid(address)

\* ProcessValidatorAddress: its return value, and the sets it leaves
ProcessValidatorAddressOk(known, address) ==
    /\ IsValid(address)
    /\ ~(address \in known)

KnownAfter(known, address) ==
    IF ProcessValidatorAddressOk(known, address) THEN known \cup {address} ELSE known

PendingAfter(known, pending, address) ==
    IF ProcessValidatorAddressOk(known, address) THEN pending \cup {address} ELSE pending

\* PeerDiscoveryManager::ProcessValidatorAddress called on its own
ProcessValidatorAddress(address) ==
    /\ knownValidatorPeers' = KnownAfter(knownValidatorPeers, address)
    /\ pendingAdditions' = PendingAfter(knownValidatorPeers, pendingAdditions, address)
    /\ ret' = Result("ProcessValidatorAddress", address,
                     ProcessValidatorAddressOk(knownValidatorPeers, address))
    /\ UNCHANGED <<tsValidators, tsCurrentHeight, seenHeartbeats, hmDeadlocked, connman,
                   addedNodes>>
    /\ UNCHANGED <<stakeVars, broadcastVars, counted>>

\* PeerDiscoveryManager::MarkPeerAdded
MarkPeerAdded(address) ==
    /\ pendingAdditions' = pendingAdditions \ {address}
    /\ ret' = Result("MarkPeerAdded", address, TRUE)
    /\ UNCHANGED <<tsValidators, tsCurrentHeight, seenHeartbeats, hmDeadlocked, connman,
                   addedNodes, knownValidatorPeers>>
    /\ UNCHANGED <<stakeVars, broadcastVars, counted>>

\* PeerDiscoveryManager::GetPendingPeers: a copy of pendingAdditions
GetPendingPeers ==
    /\ ret' = ResultValue("GetPendingPeers", NullId, pendingAdditions)
    /\ UNCHANGED <<tsValidators, tsCurrentHeight, seenHeartbeats, hmDeadlocked, connman,
                   addedNodes, knownValidatorPeers, pendingAdditions>>
    /\ UNCHANGED <<stakeVars, broadcastVars, counted>>

---------------------------------------------------------------------------
(* HeartbeatManager *)

\* Heartbeat::Verify(pubkey): the signature was made with the key of pubkey
HeartbeatVerify(heartbeat, pubkey) == heartbeat.signer = pubkey

\* Heartbeat::GetHash: every field but the signature (blockHash and nodePort are fixed)
HeartbeatHash(heartbeat) ==
    <<heartbeat.validatorId, heartbeat.blockHeight, heartbeat.timestamp,
      heartbeat.nodeAddress>>

\* std::set<uint256> keeps the hashes in the order of their value, which has nothing
\* to do with the order of arrival: a fixed order over the hashes of the model
HashRank(h) ==
    (IF h[4] = "a1" THEN 1 ELSE IF h[4] = "a2" THEN 0 ELSE 2)
    + 3 * ((IF h[1] = "v1" THEN 1 ELSE 0) + 2 * (h[3] + 2 * CDiv(h[2], nHeartbeatInterval)))

\* CleanupSeenHeartbeats once the lock is granted: drop the first half of the set
CleanupSeenHeartbeats(seen) ==
    IF Cardinality(seen) > CDiv(MAX_SEEN_HEARTBEATS, 2)
    THEN { h \in seen :
             Cardinality({ g \in seen : HashRank(g) < HashRank(h) })
                >= CDiv(Cardinality(seen), 2) }
    ELSE seen

\* m_seen_heartbeats after ProcessHeartbeat has entered the hash
SeenAfterInsert(seen, hbHash) ==
    IF Cardinality(seen \cup {hbHash}) > MAX_SEEN_HEARTBEATS
    THEN CleanupSeenHeartbeats(seen \cup {hbHash})
    ELSE seen \cup {hbHash}

HMProcessHeartbeatOk(heartbeat) ==
    /\ ~(HeartbeatHash(heartbeat) \in seenHeartbeats)
    /\ TSProcessHeartbeatOk(tsValidators, heartbeat, heartbeat.blockHeight)

\* HeartbeatManager::ProcessHeartbeat.  When the hash entered makes the set exceed
\* MAX_SEEN_HEARTBEATS it calls CleanupSeenHeartbeats, which takes cs_heartbeat again
\* on the same thread (undefined for std::mutex): this action is the outcome in which
\* the second LOCK is granted, and every call that does not reach the cleanup.
HMProcessHeartbeat(heartbeat) ==
    LET hbHash == HeartbeatHash(heartbeat)
        accepted == TSProcessHeartbeatOk(tsValidators, heartbeat, heartbeat.blockHeight)
        withAddress == accepted /\ IsValid(heartbeat.nodeAddress)
        \* TrustScoreManager::UpdateValidatorAddress, which notifies peer discovery
        knownByTS == KnownAfter(knownValidatorPeers, heartbeat.nodeAddress)
        pendingByTS == PendingAfter(knownValidatorPeers, pendingAdditions,
                                    heartbeat.nodeAddress)
        \* the manager's own call of ProcessValidatorAddress, after the scorer's
        newPeer == ProcessValidatorAddressOk(knownByTS, heartbeat.nodeAddress)
        knownByHM == KnownAfter(knownByTS, heartbeat.nodeAddress)
        pendingByHM == PendingAfter(knownByTS, pendingByTS, heartbeat.nodeAddress)
    IN
    /\ ~hmDeadlocked
    /\ IF hbHash \in seenHeartbeats
       THEN UNCHANGED <<seenHeartbeats, tsValidators, knownValidatorPeers,
                        pendingAdditions, addedNodes>>
       ELSE /\ seenHeartbeats' = SeenAfterInsert(seenHeartbeats, hbHash)
            /\ tsValidators' =
                 IF withAddress
                 THEN [TSProcessHeartbeat(tsValidators, heartbeat, heartbeat.blockHeight)
                         EXCEPT ![heartbeat.validatorId] =
                           [@ EXCEPT !.lastKnownAddress = heartbeat.nodeAddress,
                                     !.lastCheckInTime = heartbeat.timestamp,
                                     !.consecutiveCheckIns = @ + 1]]
                 ELSE TSProcessHeartbeat(tsValidators, heartbeat, heartbeat.blockHeight)
            /\ knownValidatorPeers' = IF withAddress THEN knownByHM ELSE knownValidatorPeers
            /\ pendingAdditions' =
                 IF withAddress
                 THEN (IF newPeer /\ connman
                       THEN pendingByHM \ {heartbeat.nodeAddress} ELSE pendingByHM)
                 ELSE pendingAdditions
            /\ addedNodes' = IF withAddress /\ newPeer /\ connman
                             THEN Append(addedNodes, heartbeat.nodeAddress)
                             ELSE addedNodes
    /\ counted' = IF counted = NoRequest /\ HMProcessHeartbeatOk(heartbeat)
                  THEN hbHash ELSE counted
    \* ProcessValidatorAddress (and MarkPeerAdded) take cs_peers under the
    \* LOCK(cs_heartbeat) of the first line
    /\ ret' = [Result("HMProcessHeartbeat", heartbeat.validatorId,
                       HMProcessHeartbeatOk(heartbeat))
                 EXCEPT !.req = heartbeat,
                        !.held = IF ~(hbHash \in seenHeartbeats) /\ withAddress
                                 THEN @ \cup {"cs_peers"} ELSE @]
    /\ UNCHANGED <<tsCurrentHeight, hmDeadlocked, connman>>
    /\ UNCHANGED <<stakeVars, broadcastVars>>

\* The other outcome of the cleanup's second LOCK: the thread waits for the mutex it
\* holds, with the hash already entered; ProcessHeartbeat never returns.
HMProcessHeartbeatRelock(heartbeat) ==
    /\ ~hmDeadlocked
    /\ ~(HeartbeatHash(heartbeat) \in seenHeartbeats)
    /\ Cardinality(seenHeartbeats \cup {HeartbeatHash(heartbeat)}) > MAX_SEEN_HEARTBEATS
    /\ seenHeartbeats' = seenHeartbeats \cup {HeartbeatHash(heartbeat)}
    /\ hmDeadlocked' = TRUE
    /\ ret' = [Blocked("HMProcessHeartbeat", heartbeat.validatorId)
                 EXCEPT !.req = heartbeat]
    /\ UNCHANGED <<tsValidators, tsCurrentHeight, knownValidatorPeers, pendingAdditions,
                   connman, addedNodes>>
    /\ UNCHANGED <<stakeVars, broadcastVars, counted>>

\* ValidatorRegistration::Verify(): checked against the key the message carries
RegistrationVerify(reg) == reg.signer = reg.validatorPubKey

HMProcessValidatorRegistrationOk(reg) ==
    /\ RegistrationVerify(reg)
    /\ ~(reg.stakeAmount < nMinValidatorStake)
    /\ TSRegisterValidatorOk(tsValidators, reg.validatorPubKey, reg.stakeAmount,
                             reg.poolFeeRate)

\* HeartbeatManager::ProcessValidatorRegistration (takes no lock)
HMProcessValidatorRegistration(reg) ==
    /\ tsValidators' =
         IF HMProcessValidatorRegistrationOk(reg)
         THEN TSRegisterValidator(tsValidators, reg.validatorPubKey, reg.stakeAmount,
                                  reg.poolFeeRate, reg.registrationHeight)
         ELSE tsValidators
    /\ ret' = [Result("HMProcessValidatorRegistration", reg.validatorPubKey,
                       HMProcessValidatorRegistrationOk(reg)) EXCEPT !.req = reg]
    /\ UNCHANGED <<tsCurrentHeight, seenHeartbeats, hmDeadlocked, knownValidatorPeers,
                   pendingAdditions, connman, addedNodes>>
    /\ UNCHANGED <<stakeVars, broadcastVars, counted>>

\* HeartbeatManager::OnNewBlock; ShouldBroadcastHeartbeat takes cs_heartbeat
HMOnNewBlock(height) ==
    /\ ~hmDeadlocked
    /\ tsValidators' = UpdateHeartbeatExpectations(tsValidators, height)
    /\ tsCurrentHeight' = height
    /\ ret' = Result("HMOnNewBlock", NullId, TRUE)
    /\ UNCHANGED <<seenHeartbeats, hmDeadlocked, knownValidatorPeers, pendingAdditions,
                   connman, addedNodes>>
    /\ UNCHANGED <<stakeVars, broadcastVars, counted>>

\* HeartbeatManager::SetValidatorKey
SetValidatorKey(key) ==
    /\ ~hmDeadlocked
    /\ validatorKey' = key
    /\ ret' = Result("SetValidatorKey", key, TRUE)
    /\ UNCHANGED <<tsValidators, tsCurrentHeight, seenHeartbeats, hmDeadlocked,
                   knownValidatorPeers, pendingAdditions, connman, addedNodes>>
    /\ UNCHANGED <<stakeVars, hmLastHeartbeatHeight, created, checked, inside, counted>>

ShouldBroadcastHeartbeatOk(height) ==
    /\ validatorKey # NullId
    /\ ~(height - hmLastHeartbeatHeight < nHeartbeatInterval)
    /\ height % nHeartbeatInterval = 0

\* HeartbeatManager::ShouldBroadcastHeartbeat, called by a thread that will call
\* BroadcastHeartbeat when the answer is true
ShouldBroadcastHeartbeat(thread, height) ==
    /\ ~hmDeadlocked
    /\ checked' = [checked EXCEPT ![thread] =
                     IF ShouldBroadcastHeartbeatOk(height)
                     THEN height ELSE -1]
    /\ ret' = [Result("ShouldBroadcastHeartbeat", thread,
                       ShouldBroadcastHeartbeatOk(height))
                 EXCEPT !.arg = height]
    /\ UNCHANGED <<tsValidators, tsCurrentHeight, seenHeartbeats, hmDeadlocked,
                   knownValidatorPeers, pendingAdditions, connman, addedNodes>>
    /\ UNCHANGED <<stakeVars, validatorKey, hmLastHeartbeatHeight, created, inside,
                   counted>>

\* The heartbeat BroadcastHeartbeat builds and signs: no address is filled in
LocalHeartbeat(blockHeight, timestamp) ==
    [ validatorId |-> validatorKey, blockHeight |-> blockHeight,
      timestamp |-> timestamp, nodeAddress |-> InvalidAddress,
      signer |-> validatorKey ]

\* HeartbeatManager::BroadcastHeartbeat at the time GetTime() = timestamp
BroadcastHeartbeat(thread, blockHeight, timestamp) ==
    /\ ~hmDeadlocked
    /\ IF validatorKey = NullId
       THEN UNCHANGED <<seenHeartbeats, hmLastHeartbeatHeight, created>>
       ELSE /\ seenHeartbeats' =
                 seenHeartbeats
                    \cup {HeartbeatHash(LocalHeartbeat(blockHeight, timestamp))}
            /\ hmLastHeartbeatHeight' = blockHeight
            /\ created' = Append(created, LocalHeartbeat(blockHeight, timestamp))
    /\ checked' = [checked EXCEPT ![thread] = -1]
    /\ ret' = [Result("BroadcastHeartbeat", thread, validatorKey # NullId)
                 EXCEPT !.arg = blockHeight]
    /\ UNCHANGED <<tsValidators, tsCurrentHeight, hmDeadlocked, knownValidatorPeers,
                   pendingAdditions, connman, addedNodes>>
    /\ UNCHANGED <<stakeVars, validatorKey, inside, counted>>

\* The calls of the heartbeat manager into the scorer, step by step.  The scorer has
\* no mutex.  OnNewBlock calls UpdateHeartbeatExpectations and SetHeight before it
\* takes any lock, ProcessValidatorRegistration calls RegisterValidator and takes no
\* lock, ProcessHeartbeat calls ProcessHeartbeat under cs_heartbeat.
InScorer == {t \in Threads : inside[t].op # "none"}

Entered(thread, op, req) ==
    [t \in Threads |->
        IF t = thread THEN [op |-> op, req |-> req, raced |-> InScorer # {}]
        ELSE IF inside[t].op # "none" THEN [inside[t] EXCEPT !.raced = TRUE]
        ELSE inside[t]]

\* Two threads in the scorer at once read and write its std::map unsynchronised,
\* which is undefined: the write of a call that met another one is kept or lost
ScorerOutcomes(thread, exact) ==
    IF inside[thread].raced THEN {exact, tsValidators} ELSE {exact}

\* HeartbeatManager::OnNewBlock up to its call of UpdateHeartbeatExpectations
EnterUpdateHeartbeatExpectations(thread, height) ==
    /\ inside[thread].op = "none"
    /\ inside' = Entered(thread, "UpdateHeartbeatExpectations", [height |-> height])
    /\ UNCHANGED <<tsValidators, tsCurrentHeight, seenHeartbeats, hmDeadlocked,
                   knownValidatorPeers, pendingAdditions, connman, addedNodes>>
    /\ UNCHANGED <<stakeVars, validatorKey, hmLastHeartbeatHeight, created, checked,
                   counted, ret>>

\* UpdateHeartbeatExpectations and SetHeight return, and OnNewBlock after them
LeaveUpdateHeartbeatExpectations(thread) ==
    /\ inside[thread].op = "UpdateHeartbeatExpectations"
    /\ tsValidators' \in
          ScorerOutcomes(thread, UpdateHeartbeatExpectations(tsValidators,
                                                             inside[thread].req.height))
    /\ tsCurrentHeight' = inside[thread].req.height
    /\ inside' = [inside EXCEPT ![thread] = Outside]
    /\ ret' = Result("HMOnNewBlock", NullId, TRUE)
    /\ UNCHANGED <<seenHeartbeats, hmDeadlocked, knownValidatorPeers, pendingAdditions,
                   connman, addedNodes>>
    /\ UNCHANGED <<stakeVars, validatorKey, hmLastHeartbeatHeight, created, checked,
                   counted>>

\* HeartbeatManager::ProcessValidatorRegistration up to its call of RegisterValidator,
\* which an announcement with a bad signature or a low stake does not reach
EnterRegisterValidator(thread, reg) ==
    /\ inside[thread].op = "none"
    /\ RegistrationVerify(reg)
    /\ ~(reg.stakeAmount < nMinValidatorStake)
    /\ inside' = Entered(thread, "RegisterValidator", reg)
    /\ UNCHANGED <<tsValidators, tsCurrentHeight, seenHeartbeats, hmDeadlocked,
                   knownValidatorPeers, pendingAdditions, connman, addedNodes>>
    /\ UNCHANGED <<stakeVars, validatorKey, hmLastHeartbeatHeight, created, checked,
                   counted, ret>>

\* RegisterValidator returns, and ProcessValidatorRegistration after it
LeaveRegisterValidator(thread) ==
    LET reg == inside[thread].req IN
    /\ inside[thread].op = "RegisterValidator"
    /\ tsValidators' \in
          ScorerOutcomes(thread,
             IF HMProcessValidatorRegistrationOk(reg)
             THEN TSRegisterValidator(tsValidators, reg.validatorPubKey, reg.stakeAmount,
                                      reg.poolFeeRate, reg.registrationHeight)
             ELSE tsValidators)
    /\ inside' = [inside EXCEPT ![thread] = Outside]
    /\ ret' = [Result("HMProcessValidatorRegistration", reg.validatorPubKey,
                       HMProcessValidatorRegistrationOk(reg)) EXCEPT !.req = reg]
    /\ UNCHANGED <<tsCurrentHeight, seenHeartbeats, hmDeadlocked, knownValidatorPeers,
                   pendingAdditions, connman, addedNodes>>
    /\ UNCHANGED <<stakeVars, validatorKey, hmLastHeartbeatHeight, created, checked,
                   counted>>

\* HeartbeatManager::ProcessHeartbeat up to its call of ProcessHeartbeat on the scorer:
\* it holds cs_heartbeat, which no other thread in ProcessHeartbeat holds then, and
\* has entered the hash of a heartbeat it had not seen (the set stays within
\* MAX_SEEN_HEARTBEATS, and the heartbeat carries no address)
EnterProcessHeartbeat(thread, heartbeat) ==
    /\ inside[thread].op = "none"
    /\ ~hmDeadlocked
    /\ \A t \in Threads : inside[t].op # "ProcessHeartbeat"
    /\ ~IsValid(heartbeat.nodeAddress)
    /\ ~(HeartbeatHash(heartbeat) \in seenHeartbeats)
    /\ ~(Cardinality(seenHeartbeats \cup {HeartbeatHash(heartbeat)}) > MAX_SEEN_HEARTBEATS)
    /\ seenHeartbeats' = seenHeartbeats \cup {HeartbeatHash(heartbeat)}
    /\ inside' = Entered(thread, "ProcessHeartbeat", heartbeat)
    /\ UNCHANGED <<tsValidators, tsCurrentHeight, hmDeadlocked, knownValidatorPeers,
                   pendingAdditions, connman, addedNodes>>
    /\ UNCHANGED <<stakeVars, validatorKey, hmLastHeartbeatHeight, created, checked,
                   counted, ret>>

\* ProcessHeartbeat of the scorer returns, and the manager's ProcessHeartbeat after it
LeaveProcessHeartbeat(thread) ==
    LET heartbeat == inside[thread].req
        accepted == TSProcessHeartbeatOk(tsValidators, heartbeat, heartbeat.blockHeight)
    IN
    /\ inside[thread].op = "ProcessHeartbeat"
    /\ tsValidators' \in
          ScorerOutcomes(thread, TSProcessHeartbeat(tsValidators, heartbeat,
                                                    heartbeat.blockHeight))
    /\ inside' = [inside EXCEPT ![thread] = Outside]
    /\ counted' = IF counted = NoRequest /\ accepted
                  THEN HeartbeatHash(heartbeat) ELSE counted
    /\ ret' = [Result("HMProcessHeartbeat", heartbeat.validatorId, accepted)
                 EXCEPT !.req = heartbeat]
    /\ UNCHANGED <<tsCurrentHeight, seenHeartbeats, hmDeadlocked, knownValidatorPeers,
                   pendingAdditions, connman, addedNodes>>
    /\ UNCHANGED <<stakeVars, validatorKey, hmLastHeartbeatHeight, created, checked>>

\* HeartbeatManager::SetConnman
SetConnman ==
    /\ ~connman
    /\ connman' = TRUE
    /\ ret' = Result("SetConnman", NullId, TRUE)
    /\ UNCHANGED <<tsValidators, tsCurrentHeight, seenHeartbeats, hmDeadlocked,
                   knownValidatorPeers, pendingAdditions, addedNodes>>
    /\ UNCHANGED <<stakeVars, broadcastVars, counted>>

---------------------------------------------------------------------------
(* The reward split of a validator entry, evaluated on its own *)

NoReward ==
    [ stakeAmount |-> 0, totalDelegated |-> 0, poolFeeRate |-> 0, blockReward |-> 0,
      validatorReward |-> 0, delegatorsReward |-> 0, evaluated |-> FALSE ]

\* CalculateValidatorReward and CalculateDelegatorsReward of one entry for one block
EvaluateReward ==
    LET multiplies == reward.totalDelegated # 0 /\ GetTotalStake(reward) # 0
        fitsValidator == multiplies => ProductFits(reward.blockReward, reward.stakeAmount)
        fitsDelegators == multiplies
                             => ProductFits(reward.blockReward, reward.totalDelegated)
    IN
    /\ ~reward.evaluated
    /\ \E validatorReward \in
             AmountOutcomes(CalculateValidatorReward(reward, reward.blockReward),
                            fitsValidator),
          delegatorsReward \in
             AmountOutcomes(CalculateDelegatorsReward(reward, reward.blockReward),
                            fitsDelegators) :
          /\ reward' = [reward EXCEPT !.validatorReward = validatorReward,
                                      !.delegatorsReward = delegatorsReward,
                                      !.evaluated = TRUE]
          /\ ret' = ResultValue("CalculateValidatorReward", NullId, validatorReward)
    /\ UNCHANGED <<tsValidators, tsCurrentHeight, seenHeartbeats, hmDeadlocked,
                   knownValidatorPeers, pendingAdditions, connman, addedNodes,
                   broadcastVars, counted>>
    /\ UNCHANGED <<validators, outpointIndex, currentHeight, delegations, delegatorIndex,
                   validatorIndex, dlOutpointIndex, dlCurrentHeight, dlDeadlocked,
                   deactivatedAt>>

---------------------------------------------------------------------------
(* Initial state: the components as their constructors leave them *)

InitComponents ==
    /\ validators = EmptyMap
    /\ outpointIndex = EmptyMap
    /\ currentHeight = 0
    /\ delegations = EmptyMap
    /\ delegatorIndex = [d \in DelegatorIds |-> <<>>]
    /\ validatorIndex = [v \in ValidatorIds |-> <<>>]
    /\ dlOutpointIndex = EmptyMap
    /\ dlCurrentHeight = 0
    /\ dlDeadlocked = FALSE
    /\ tsValidators = EmptyMap
    /\ tsCurrentHeight = 0
    /\ seenHeartbeats = {}
    /\ hmDeadlocked = FALSE
    /\ knownValidatorPeers = {}
    /\ pendingAdditions = {}
    /\ connman = FALSE
    /\ addedNodes = <<>>
    /\ validatorKey = NullId
    /\ hmLastHeartbeatHeight = 0
    /\ created = <<>>
    /\ checked = [t \in Threads |-> -1]
    /\ inside = [t \in Threads |-> Outside]
    /\ counted = NoRequest
    /\ deactivatedAt = EmptyMap
    /\ ret = Result("construct", NullId, TRUE)

Init ==
    /\ InitComponents
    /\ reward = NoReward

---------------------------------------------------------------------------
(* Callers' inputs *)

\* A key that is not the one the record or the request names
OtherKey == "other"

\* The entry the registervalidator RPC builds: registrationHeight is the height known
\* to the registry; the status and the rest are the caller's to fill in
EntryInputs(ids, stakes, fees, statuses, nameLens, outpoints) ==
    { NewValidatorEntry(id, stake, fee, currentHeight, status, nameLen, outpoint) :
        id \in ids, stake \in stakes, fee \in fees, status \in statuses,
        nameLen \in nameLens, outpoint \in outpoints }

UpdateInputs(ids) ==
    [ validatorId : ids, updateType : ValidatorUpdateType,
      newValue : {1, MAX_POOL_FEE + 1}, newName : {MAX_VALIDATOR_NAME + 1},
      signer : ids \cup {OtherKey} ]

\* ValidatorUpdate messages of chosen types and values, signed with the validator's
\* key or with another one
Updates(ids, types, values, nameLens) ==
    [ validatorId : ids, updateType : types, newValue : values, newName : nameLens,
      signer : ids \cup {OtherKey} ]

DelegationRequests(ids, amounts, signatures) ==
    { [ delegatorId |-> d, delegatorPubKey |-> d, validatorId |-> v, amount |-> a,
        height |-> dlCurrentHeight, signer |-> IF signed THEN d ELSE OtherKey ] :
        d \in DelegatorIds, v \in ids, a \in amounts, signed \in signatures }

\* (signed with the delegator's key, or with another one)
UndelegationRequests(ids, amounts) ==
    { [ delegatorId |-> d, validatorId |-> v, amount |-> a,
        signer |-> IF signed THEN d ELSE OtherKey ] :
        d \in DelegatorIds, v \in ids, a \in amounts, signed \in BOOLEAN }

RewardClaimRequests(ids) ==
    { [ delegatorId |-> d, validatorId |-> v, signer |-> IF signed THEN d ELSE OtherKey ] :
        d \in DelegatorIds, v \in ids \cup {NullId}, signed \in BOOLEAN }

\* The ids a caller can name: those of the records, and one of no record
DelegationIds == DOMAIN delegations \cup {GetDelegationId("d1", "v1", -1)}

\* Block heights handed to ValidatorDB::ProcessBlock: the heights around the maturity
\* of a registration at 0, the release of a default jail and the end of unbonding
ValidatorHeights ==
    { VALIDATOR_MATURITY - 1, VALIDATOR_MATURITY,
      VALIDATOR_MATURITY + DEFAULT_JAIL_BLOCKS, UNBONDING_PERIOD }

\* Block heights handed to DelegationDB::ProcessBlock
DelegationHeights ==
    { DELEGATION_MATURITY, DELEGATION_MATURITY + DELEGATION_UNBONDING_PERIOD }

\* Every pendingRewards stays within the amounts the model follows
RewardsWithin(dels) ==
    \A id \in DOMAIN dels :
        dels[id].pendingRewards <= MaxReward /\ dels[id].pendingRewards >= -1

---------------------------------------------------------------------------
(* Registration and the outpoint indices of both databases *)

NextOutpoints ==
    \/ \E entry \in EntryInputs(ValidatorIds, {nMinValidatorStake - 1, nMinValidatorStake},
                                {DEFAULT_POOL_FEE, MAX_POOL_FEE + 1, MIN_POOL_FEE - 1},
                                {"PENDING", "ACTIVE"},
                                {MAX_VALIDATOR_NAME, MAX_VALIDATOR_NAME + 1},
                                Outpoints \cup {NullOutpoint}) :
          RegisterValidator(entry)
    \/ \E id \in ValidatorIds, o \in Outpoints \cup {NullOutpoint} :
          UpdateStakeOutpoint(id, o)
    \/ \E request \in DelegationRequests({"v1"}, {MIN_DELEGATION_AMOUNT}, {TRUE}),
          o \in Outpoints \cup {NullOutpoint} :
          /\ Cardinality(DOMAIN delegations) < MaxDelegations
          /\ ProcessDelegation(request, o)
    \/ \E id \in DelegationIds, o \in Outpoints \cup {NullOutpoint} :
          UpdateDelegationOutpoint(id, o)

SpecOutpoints == Init /\ [][NextOutpoints]_vars

---------------------------------------------------------------------------
(* The life of one validator in the registry *)

NextValidator ==
    \/ \E entry \in EntryInputs({"v1"}, {nMinValidatorStake - 1, nMinValidatorStake},
                                {DEFAULT_POOL_FEE}, {"PENDING"}, {MAX_VALIDATOR_NAME},
                                {"o1"}) :
          RegisterValidator(entry)
    \/ \E update \in UpdateInputs({"v1"}) :
          /\ update.validatorId \in DOMAIN validators =>
                validators[update.validatorId].stakeAmount + update.newValue
                   <= nMinValidatorStake + MaxExtra
                \/ update.updateType # "INCREASE_STAKE"
          /\ ProcessUpdate(update)
    \/ \E status \in ValidatorStatus : SetValidatorStatus("v1", status)
    \/ \E jailBlocks \in {0, DEFAULT_JAIL_BLOCKS} : JailValidator("v1", jailBlocks)
    \/ UnjailValidator("v1")
    \/ \E height \in ValidatorHeights :
          /\ height > currentHeight
          /\ VRProcessBlock(height)

SpecValidator == Init /\ [][NextValidator]_vars

---------------------------------------------------------------------------
(* The self-stake of one validator under signed stake updates *)

StakeWithin(vals) ==
    \A id \in DOMAIN vals :
       /\ vals[id].stakeAmount >= nMinValidatorStake - MaxExtra - 1
       /\ vals[id].stakeAmount <= nMinValidatorStake + MaxExtra

NextStake ==
    \/ \E entry \in EntryInputs({"v1"}, {nMinValidatorStake - 1, nMinValidatorStake,
                                         nMinValidatorStake + MaxExtra},
                                {DEFAULT_POOL_FEE}, {"PENDING"}, {MAX_VALIDATOR_NAME},
                                {"o1"}) :
          RegisterValidator(entry)
    \/ SetValidatorStatus("v1", "ACTIVE")
    \/ \E update \in Updates({"v1"}, {"INCREASE_STAKE", "DECREASE_STAKE"}, {-1, 0, 1},
                              {MAX_VALIDATOR_NAME}) :
          /\ ProcessUpdate(update)
          /\ StakeWithin(validators')
    \/ \E height \in {VALIDATOR_MATURITY} :
          /\ height > currentHeight
          /\ VRProcessBlock(height)

SpecStake == Init /\ [][NextStake]_vars

---------------------------------------------------------------------------
(* One validator under its own signed updates, jailing and the passing of blocks *)

\* Block heights handed to ValidatorDB::ProcessBlock around the ends of a jail term
\* and of an unbonding period
JailHeights ==
    { DEFAULT_JAIL_BLOCKS - 1, DEFAULT_JAIL_BLOCKS, UNBONDING_PERIOD - 1, UNBONDING_PERIOD }

NextJail ==
    \/ \E entry \in EntryInputs({"v1"}, {nMinValidatorStake}, {DEFAULT_POOL_FEE},
                                {"PENDING"}, {MAX_VALIDATOR_NAME}, {"o1"}) :
          RegisterValidator(entry)
    \/ \E update \in Updates({"v1"}, ValidatorUpdateType, {1}, {MAX_VALIDATOR_NAME}) :
          /\ ProcessUpdate(update)
          /\ StakeWithin(validators')
    \/ \E jailBlocks \in {0, DEFAULT_JAIL_BLOCKS} : JailValidator("v1", jailBlocks)
    \/ UnjailValidator("v1")
    \/ \E height \in JailHeights :
          /\ height > currentHeight
          /\ VRProcessBlock(height)

SpecJail == Init /\ [][NextJail]_vars

---------------------------------------------------------------------------
(* Fee rates and names at the edges of their ranges, in the registry and in the
   trust scores *)

FeeRates == {MIN_POOL_FEE - 1, MIN_POOL_FEE, MAX_POOL_FEE, MAX_POOL_FEE + 1}
NameLengths == {MAX_VALIDATOR_NAME, MAX_VALIDATOR_NAME + 1}

NextFees ==
    \/ \E entry \in EntryInputs(ValidatorIds, {nMinValidatorStake}, FeeRates, {"PENDING"},
                                NameLengths, {NullOutpoint}) :
          RegisterValidator(entry)
    \/ \E update \in Updates({"v1"}, {"UPDATE_FEE", "UPDATE_NAME"}, FeeRates, NameLengths) :
          ProcessUpdate(update)
    \/ \E reg \in [ validatorPubKey : ValidatorIds, stakeAmount : {nMinValidatorStake},
                     poolFeeRate : FeeRates, registrationHeight : {tsCurrentHeight},
                     signer : ValidatorIds ] :
          HMProcessValidatorRegistration(reg)
    \/ \E id \in ValidatorIds, newFeeRate \in FeeRates : TSUpdatePoolFee(id, newFeeRate)

SpecFees == Init /\ [][NextFees]_vars

---------------------------------------------------------------------------
(* Reward claims of two delegators over two validators *)

NextClaims ==
    \/ \E entry \in EntryInputs(ValidatorIds, {nMinValidatorStake}, {DEFAULT_POOL_FEE},
                                {"ACTIVE"}, {MAX_VALIDATOR_NAME}, {NullOutpoint}) :
          RegisterValidator(entry)
    \/ \E request \in DelegationRequests(ValidatorIds, {MIN_DELEGATION_AMOUNT}, {TRUE}) :
          /\ Cardinality(DOMAIN delegations) < MaxDelegations
          /\ ProcessDelegation(request, NullOutpoint)
    \/ \E request \in RewardClaimRequests(ValidatorIds) :
          /\ request.signer = request.delegatorId
          /\ ProcessRewardClaim(request)
    \/ \E id \in DOMAIN delegations, rewards \in {-1, 1} :
          /\ AddRewards(id, rewards)
          /\ RewardsWithin(delegations')
    \/ \E height \in {DELEGATION_MATURITY} :
          /\ height > dlCurrentHeight
          /\ DLProcessBlock(height)

SpecClaims == Init /\ [][NextClaims]_vars

---------------------------------------------------------------------------
(* The life of a delegation: requested, matured, undelegated, withdrawn *)

\* Block heights handed to DelegationDB::ProcessBlock around the end of the maturity
\* of a delegation made at height 0 and of the unbonding of one undelegated at
\* DELEGATION_MATURITY
MaturityHeights ==
    { DELEGATION_MATURITY - 1, DELEGATION_MATURITY,
      DELEGATION_MATURITY + DELEGATION_UNBONDING_PERIOD - 1,
      DELEGATION_MATURITY + DELEGATION_UNBONDING_PERIOD }

NextMaturity ==
    \/ \E entry \in EntryInputs({"v1"}, {nMinValidatorStake}, {DEFAULT_POOL_FEE},
                                {"ACTIVE"}, {MAX_VALIDATOR_NAME}, {NullOutpoint}) :
          RegisterValidator(entry)
    \/ \E request \in DelegationRequests({"v1"}, {MIN_DELEGATION_AMOUNT}, BOOLEAN) :
          /\ Cardinality(DOMAIN delegations) < MaxDelegations
          /\ ProcessDelegation(request, NullOutpoint)
    \/ \E request \in UndelegationRequests({"v1"}, {0, MIN_DELEGATION_AMOUNT}) :
          ProcessUndelegation(request)
    \/ \E request \in RewardClaimRequests({}) : ProcessRewardClaim(request)
    \/ \E height \in MaturityHeights :
          /\ height > dlCurrentHeight
          /\ DLProcessBlock(height)

SpecMaturity == Init /\ [][NextMaturity]_vars

---------------------------------------------------------------------------
(* Saving the registry and the ledger and loading them again *)

NextReload ==
    \/ \E entry \in EntryInputs(ValidatorIds, {nMinValidatorStake}, {DEFAULT_POOL_FEE},
                                {"ACTIVE"}, {MAX_VALIDATOR_NAME},
                                Outpoints \cup {NullOutpoint}) :
          RegisterValidator(entry)
    \/ \E request \in DelegationRequests(ValidatorIds, {MIN_DELEGATION_AMOUNT}, {TRUE}),
          o \in {"o1", NullOutpoint} :
          /\ Cardinality(DOMAIN delegations) < MaxDelegations
          /\ ProcessDelegation(request, o)
    \/ \E request \in UndelegationRequests(ValidatorIds, {0}) :
          /\ request.signer = request.delegatorId
          /\ ProcessUndelegation(request)
    \/ \E height \in {DELEGATION_MATURITY} :
          /\ height > dlCurrentHeight
          /\ DLProcessBlock(height)
    \/ DLUnserialize(DLSerialize(delegations))
    \/ VRUnserialize(VRSerialize(validators))

SpecReload == Init /\ [][NextReload]_vars

---------------------------------------------------------------------------
(* One validator sending a heartbeat at every interval, past the uptime window *)

\* The heartbeat an honest validator sends for the block just announced
HeartbeatsNow ==
    [ validatorId : {"v1"}, blockHeight : {tsCurrentHeight}, timestamp : {1},
      nodeAddress : {"a1"}, signer : {"v1"} ]

NextUptime ==
    \/ \E reg \in [ validatorPubKey : {"v1"}, stakeAmount : {nMinValidatorStake},
                     poolFeeRate : {DEFAULT_POOL_FEE},
                     registrationHeight : {tsCurrentHeight}, signer : {"v1"} ] :
          HMProcessValidatorRegistration(reg)
    \/ \E heartbeat \in HeartbeatsNow : HMProcessHeartbeat(heartbeat)
    \/ \E heartbeat \in HeartbeatsNow : HMProcessHeartbeatRelock(heartbeat)
    \/ /\ tsCurrentHeight < nUptimeWindow + 2 * nHeartbeatInterval
       /\ HMOnNewBlock(tsCurrentHeight + nHeartbeatInterval)

SpecUptime == Init /\ [][NextUptime]_vars

---------------------------------------------------------------------------
(* The delegation ledger and the aggregates the registry keeps of it *)

NextLedger ==
    \/ \E entry \in EntryInputs({"v1"}, {nMinValidatorStake}, {DEFAULT_POOL_FEE},
                                {"PENDING", "ACTIVE"}, {MAX_VALIDATOR_NAME},
                                {NullOutpoint}) :
          RegisterValidator(entry)
    \/ SetValidatorStatus("v1", "ACTIVE")
    \/ \E request \in DelegationRequests({"v1"}, {MIN_DELEGATION_AMOUNT}, {TRUE}) :
          /\ Cardinality(DOMAIN delegations) < MaxDelegations
          /\ ProcessDelegation(request, NullOutpoint)
    \/ \E request \in UndelegationRequests({"v1"}, {0, MIN_DELEGATION_AMOUNT - 1}) :
          ProcessUndelegation(request)
    \/ \E request \in RewardClaimRequests({}) : ProcessRewardClaim(request)
    \/ \E id \in DOMAIN delegations, rewards \in {-1, 1} :
          /\ AddRewards(id, rewards)
          /\ RewardsWithin(delegations')
    \/ \E delegatorsShare \in {0, MaxReward, -1} :
          /\ DistributeBlockReward("v1", delegatorsShare)
          /\ RewardsWithin(delegations')
    \/ \E delegatorsShare \in {0, MaxReward, -1} :
          DistributeBlockRewardRelock("v1", delegatorsShare)
    \/ \E height \in DelegationHeights :
          /\ height > dlCurrentHeight
          /\ DLProcessBlock(height)

SpecLedger == Init /\ [][NextLedger]_vars

---------------------------------------------------------------------------
(* The reward split, over block rewards and entries drawn at the start *)

InitRewards ==
    /\ InitComponents
    /\ reward \in [ stakeAmount : 0 .. MaxStake, totalDelegated : 0 .. MaxStake,
                    poolFeeRate : {MIN_POOL_FEE, DEFAULT_POOL_FEE, 5000, MAX_POOL_FEE},
                    blockReward : 0 .. MaxBlockReward,
                    validatorReward : {0}, delegatorsReward : {0}, evaluated : {FALSE} ]

NextRewards == EvaluateReward

SpecRewards == InitRewards /\ [][NextRewards]_vars

---------------------------------------------------------------------------
(* The reward split for stakes and delegations of the sizes the parameters allow *)

InitAmounts ==
    /\ InitComponents
    /\ reward \in [ stakeAmount : {nMinValidatorStake, nMinValidatorStakeMain},
                    totalDelegated : {0, MIN_DELEGATION_AMOUNT, 2 * MIN_DELEGATION_AMOUNT},
                    poolFeeRate : {MIN_POOL_FEE, DEFAULT_POOL_FEE, MAX_POOL_FEE},
                    blockReward : 0 .. MaxBlockReward,
                    validatorReward : {0}, delegatorsReward : {0}, evaluated : {FALSE} ]

NextAmounts == EvaluateReward

SpecAmounts == InitAmounts /\ [][NextAmounts]_vars

---------------------------------------------------------------------------
(* The trust tier, over counters drawn at the start *)

\* heartbeatsReceived and heartbeatsExpected around every threshold
CounterPairs ==
    ({0, 9, 10} \X {0, 10})
       \cup ({94, 95, 96, 97, 98, 99, 100} \X {100})
       \cup ({949, 950, 969, 970, 989, 990, 998, 999, 1000} \X {1000})

InitTier ==
    /\ validators = EmptyMap
    /\ outpointIndex = EmptyMap
    /\ currentHeight = 0
    /\ delegations = EmptyMap
    /\ delegatorIndex = [d \in DelegatorIds |-> <<>>]
    /\ validatorIndex = [v \in ValidatorIds |-> <<>>]
    /\ dlOutpointIndex = EmptyMap
    /\ dlCurrentHeight = 0
    /\ dlDeadlocked = FALSE
    /\ \E counters \in CounterPairs, active \in BOOLEAN,
          stake \in {nMinValidatorStake - 1, nMinValidatorStake} :
          tsValidators =
             [id \in {"v1"} |->
                [NewValidatorInfo("v1", stake, DEFAULT_POOL_FEE, 0)
                   EXCEPT !.heartbeatsReceived = counters[1],
                          !.heartbeatsExpected = counters[2],
                          !.isActive = active]]
    /\ tsCurrentHeight = 0
    /\ seenHeartbeats = {}
    /\ hmDeadlocked = FALSE
    /\ knownValidatorPeers = {}
    /\ pendingAdditions = {}
    /\ connman = FALSE
    /\ addedNodes = <<>>
    /\ validatorKey = NullId
    /\ hmLastHeartbeatHeight = 0
    /\ created = <<>>
    /\ checked = [t \in Threads |-> -1]
    /\ inside = [t \in Threads |-> Outside]
    /\ counted = NoRequest
    /\ deactivatedAt = EmptyMap
    /\ reward = NoReward
    /\ ret = Result("construct", NullId, TRUE)

NextTier == \E id \in ValidatorIds : GetValidatorTier(id)

SpecTier == InitTier /\ [][NextTier]_vars

---------------------------------------------------------------------------
(* The scorer alone: heartbeats one block before and at the block they are due *)

HeartbeatHeights ==
    { k * nHeartbeatInterval - early : k \in 1..4, early \in {0, 1} }

NextScorer ==
    \/ \E reg \in [ validatorPubKey : ValidatorIds, stakeAmount : {nMinValidatorStake},
                     poolFeeRate : {DEFAULT_POOL_FEE}, registrationHeight : {0},
                     signer : ValidatorIds ] :
          HMProcessValidatorRegistration(reg)
    \/ \E id \in ValidatorIds, height \in HeartbeatHeights :
          ScorerProcessHeartbeat(
             [validatorId |-> id, blockHeight |-> height, timestamp |-> 1,
              nodeAddress |-> "a1", signer |-> id], height)
    \/ \E id \in ValidatorIds : TSDeactivateValidator(id)

SpecScorer == Init /\ [][NextScorer]_vars

---------------------------------------------------------------------------
(* Heartbeats: the manager, the scorer behind it and peer discovery *)

Heartbeats ==
    [ validatorId : ValidatorIds,
      blockHeight : {nHeartbeatInterval, 2 * nHeartbeatInterval},
      timestamp : {1},
      nodeAddress : {"a1", InvalidAddress},
      signer : {OtherKey} ]

Registrations ==
    [ validatorPubKey : {"v1"}, stakeAmount : {nMinValidatorStake - 1, nMinValidatorStake},
      poolFeeRate : {DEFAULT_POOL_FEE}, registrationHeight : {tsCurrentHeight},
      signer : {"v1", OtherKey} ]

NextHeartbeat ==
    \/ \E reg \in Registrations : HMProcessValidatorRegistration(reg)
    \/ \E heartbeat \in Heartbeats : HMProcessHeartbeat(heartbeat)
    \/ \E heartbeat \in Heartbeats : HMProcessHeartbeatRelock(heartbeat)
    \/ \E height \in {nHeartbeatInterval, 2 * nHeartbeatInterval} :
          /\ height > tsCurrentHeight
          /\ HMOnNewBlock(height)
    \/ SetConnman

SpecHeartbeat == Init /\ [][NextHeartbeat]_vars

---------------------------------------------------------------------------
(* The node's own heartbeats next to the inbound ones *)

MaxCreated == 5

NextBroadcast ==
    \/ \E key \in {"v1"} : validatorKey = NullId /\ SetValidatorKey(key)
    \/ \E height \in { k * nHeartbeatInterval : k \in 1..MaxCreated } :
          /\ Len(created) < MaxCreated
          /\ height > hmLastHeartbeatHeight
          /\ BroadcastHeartbeat("t1", height, 1)
    \/ \E heartbeat \in Heartbeats :
          heartbeat.nodeAddress = "a1" /\ HMProcessHeartbeat(heartbeat)
    \/ \E heartbeat \in Heartbeats :
          heartbeat.nodeAddress = "a1" /\ HMProcessHeartbeatRelock(heartbeat)

SpecBroadcast == Init /\ [][NextBroadcast]_vars

(* Two threads on the local broadcast path: each asks ShouldBroadcastHeartbeat for *)
(* the new height and calls BroadcastHeartbeat when the answer was true            *)

NextThreads ==
    \/ \E key \in ValidatorIds : validatorKey = NullId /\ SetValidatorKey(key)
    \/ \E thread \in Threads, height \in {5, 10, 20, 30} :
          /\ checked[thread] = -1
          /\ height >= hmLastHeartbeatHeight
          /\ ShouldBroadcastHeartbeat(thread, height)
    \/ \E thread \in Threads, timestamp \in {1, 2} :
          /\ checked[thread] # -1
          /\ Len(created) < MaxCreated
          /\ BroadcastHeartbeat(thread, checked[thread], timestamp)

SpecThreads == Init /\ [][NextThreads]_vars

(* A validator node that is told of every fifth block *)

NextOnBlock ==
    \/ \E key \in {"v1"} : validatorKey = NullId /\ SetValidatorKey(key)
    \/ \E reg \in Registrations : HMProcessValidatorRegistration(reg)
    \/ /\ tsCurrentHeight < 4 * nHeartbeatInterval
       /\ HMOnNewBlock(tsCurrentHeight + 5)
    \/ /\ Len(created) < 2
       /\ tsCurrentHeight > hmLastHeartbeatHeight
       /\ BroadcastHeartbeat("t1", tsCurrentHeight, 1)

SpecOnBlock == Init /\ [][NextOnBlock]_vars

(* Peer discovery, fed directly and by the heartbeats of one validator *)

NextPeers ==
    \/ \E address \in Addresses \cup {InvalidAddress} : ProcessValidatorAddress(address)
    \/ \E address \in Addresses : MarkPeerAdded(address)
    \/ GetPendingPeers
    \/ SetConnman
    \/ \E reg \in [ validatorPubKey : {"v1"}, stakeAmount : {nMinValidatorStake},
                     poolFeeRate : {DEFAULT_POOL_FEE}, registrationHeight : {0},
                     signer : {"v1"} ] :
          HMProcessValidatorRegistration(reg)
    \/ \E heartbeat \in [ validatorId : {"v1"},
                           blockHeight : {nHeartbeatInterval, 2 * nHeartbeatInterval},
                           timestamp : {1}, nodeAddress : Addresses, signer : {"v1"} ] :
          HMProcessHeartbeat(heartbeat)

SpecPeers == Init /\ [][NextPeers]_vars

---------------------------------------------------------------------------
(* Properties of the registry and the ledger *)

\* C1: in every reachable state each validator's totalDelegated is the sum of the
\* amounts of its delegation records whose status is Active; a record that is
\* Pending, Unbonding or Withdrawn contributes nothing.
TotalDelegatedIsActiveSum ==
    \A v \in DOMAIN validators :
        validators[v].totalDelegated = GetTotalDelegationForValidator(v)

\* C2: in every reachable state each validator's delegatorCount is the number of
\* distinct delegators holding at least one Active delegation to it.
DelegatorCountIsDistinctActive ==
    \A v \in DOMAIN validators :
        validators[v].delegatorCount = GetDelegatorCountForValidator(v)

\* C3: no delegation record ever has negative pendingRewards.
PendingRewardsNonNegative ==
    \A id \in DOMAIN delegations : delegations[id].pendingRewards >= 0

\* An outpoint index agrees with the records' forward field: no two records hold the
\* same non-null outpoint, a record's non-null outpoint is indexed to the record, and
\* every key of the index leads to a record holding that key
IndexAgrees(records, index, OutpointOf(_)) ==
    /\ \A a, b \in DOMAIN records :
          a # b /\ OutpointOf(records[a]) # NullOutpoint
             => OutpointOf(records[a]) # OutpointOf(records[b])
    /\ \A a \in DOMAIN records :
          OutpointOf(records[a]) # NullOutpoint
             => /\ OutpointOf(records[a]) \in DOMAIN index
                /\ index[OutpointOf(records[a])] = a
    /\ \A o \in DOMAIN index :
          /\ index[o] \in DOMAIN records
          /\ OutpointOf(records[index[o]]) = o

\* C4: in the registry and in the ledger the outpoint index is a function that agrees
\* with the forward field after any sequence of register, process_delegation,
\* UpdateStakeOutpoint and UpdateDelegationOutpoint calls.
OutpointIndicesAgree ==
    /\ IndexAgrees(validators, outpointIndex, LAMBDA e : e.stakeOutpoint)
    /\ IndexAgrees(delegations, dlOutpointIndex, LAMBDA e : e.delegationOutpoint)

\* The call reported failure: false, or 0 from a reward claim
ReportsFailure(r) ==
    /\ r.returned
    /\ ~r.ok \/ (r.op = "ProcessRewardClaim" /\ r.value = 0)

\* C5: an operation that reports failure has changed no component state; in
\* particular a heartbeat for which ProcessHeartbeat returns false leaves the seen
\* set and the scorer's counters as they were.
FailureChangesNothing ==
    [][ReportsFailure(ret') =>
          UNCHANGED <<validators, outpointIndex, currentHeight, delegations,
                      delegatorIndex, validatorIndex, dlOutpointIndex, dlCurrentHeight,
                      tsValidators, tsCurrentHeight, seenHeartbeats,
                      knownValidatorPeers, pendingAdditions, addedNodes>>]_vars

\* C6: with T = stake + delegated, S_d = floor(R * delegated / T) and
\* F = floor(S_d * fee / 10000) the validator's reward is R - S_d + F and the
\* delegators' reward is S_d - F, so that the two sum to R; with nothing delegated
\* the validator gets R and the delegators 0.
RewardSplitSumsToReward ==
    reward.evaluated =>
       LET R == reward.blockReward
           T == reward.stakeAmount + reward.totalDelegated
           S_d == IF reward.totalDelegated = 0 THEN 0
                  ELSE (R * reward.totalDelegated) \div T
           F == (S_d * reward.poolFeeRate) \div 10000
       IN  /\ reward.validatorReward = R - S_d + F
           /\ reward.delegatorsReward = S_d - F
           /\ reward.validatorReward + reward.delegatorsReward = R

\* The Active records of a validator, and the sum of what a share credits to them
ActiveOf(validatorId) ==
    { id \in Range(validatorIndex[validatorId]) \cap DOMAIN delegations :
        delegations[id].status = "ACTIVE" }

RECURSIVE SumShares(_, _, _)
SumShares(ids, share, total) ==
    IF ids = {} THEN 0
    ELSE LET id == CHOOSE x \in ids : TRUE
         IN  (share * delegations[id].amount) \div total
                + SumShares(ids \ {id}, share, total)

\* C7: DistributeBlockReward(V, S) with S >= 0, for a validator V that has Active
\* delegations, returns having raised the pendingRewards of each Active delegation i
\* of V by floor(S * a_i / A), A the sum of the Active amounts, and of no other
\* record; the total credited is at most S and short of S by at most the number of
\* Active delegations less one.
DistributeCreditsFloorShares ==
    [][ret'.op = "DistributeBlockReward" /\ ret'.arg >= 0 /\ ActiveOf(ret'.id) # {} =>
          LET V == ret'.id
              S == ret'.arg
              A == GetTotalDelegationForValidator(V)
          IN  /\ ret'.returned
              /\ DOMAIN delegations' = DOMAIN delegations
              /\ \A id \in DOMAIN delegations :
                    delegations'[id].pendingRewards =
                       delegations[id].pendingRewards +
                          (IF id \in ActiveOf(V) THEN (S * delegations[id].amount) \div A
                           ELSE 0)
              /\ A > 0 =>
                    /\ SumShares(ActiveOf(V), S, A) <= S
                    /\ S - SumShares(ActiveOf(V), S, A) <= Cardinality(ActiveOf(V)) - 1
       ]_vars

\* C8: RegisterValidator that fails leaves the registry and the outpoint index
\* unchanged; one that succeeds was given a new id, a fee within bounds, the minimum
\* stake and a name of at most 64 bytes, and the record it stores has status Pending
\* whatever status the caller put in the entry.
RegisterStoresPending ==
    [][ret'.op = "RegisterValidator" =>
          IF ~ret'.ok THEN UNCHANGED <<validators, outpointIndex>>
          ELSE /\ ret'.id \in DOMAIN validators'
               /\ validators'[ret'.id].poolFeeRate >= MIN_POOL_FEE
               /\ validators'[ret'.id].poolFeeRate <= MAX_POOL_FEE
               /\ validators'[ret'.id].stakeAmount >= nMinValidatorStake
               /\ validators'[ret'.id].validatorName <= MAX_VALIDATOR_NAME
               /\ validators'[ret'.id].status = "PENDING"
       ]_vars

\* C9: once ProcessBlock(h) has run with h - registrationHeight >= maturity, no
\* validator holding the minimum self stake is still Pending: the block tick alone
\* has made it Active.
PendingBecomesActiveAtMaturity ==
    ret.op = "VRProcessBlock" =>
       \A id \in DOMAIN validators :
          validators[id].status = "PENDING" /\ validators[id].stakeAmount >= nMinValidatorStake
             => currentHeight - validators[id].registrationHeight < VALIDATOR_MATURITY

\* C10: in every reachable state a validator whose status is Active is mature:
\* currentHeight - registrationHeight >= maturity.
ActiveImpliesMature ==
    \A id \in DOMAIN validators :
       validators[id].status = "ACTIVE"
          => currentHeight - validators[id].registrationHeight >= VALIDATOR_MATURITY

\* C11: in every reachable state a validator whose status is Active has a self-stake
\* of at least the minimum, whatever signed IncreaseStake and DecreaseStake updates
\* (of any delta, negative ones included) were applied.
ActiveMeetsMinimumStake ==
    \A id \in DOMAIN validators :
       validators[id].status = "ACTIVE"
          => validators[id].stakeAmount >= nMinValidatorStake

\* C12: a validator whose Deactivate update was accepted at height h is still Unbonding
\* after every ProcessBlock(h') with h' - h < UNBONDING_PERIOD and is Inactive after
\* the first ProcessBlock(h') with h' - h >= UNBONDING_PERIOD, never earlier.
UnbondingLastsThePeriod ==
    [][ret'.op = "VRProcessBlock"
          => \A id \in DOMAIN deactivatedAt :
                validators'[id].status =
                   IF currentHeight' - deactivatedAt[id] >= UNBONDING_PERIOD
                   THEN "INACTIVE" ELSE "UNBONDING"]_vars

\* C13: for a Jailed validator with release height r, a Reactivate update signed with
\* its key is rejected below r and leaves the record unchanged; at r or later it is
\* accepted, the status becomes Active and jailReleaseHeight is cleared to 0.
ReactivateFollowsJailRelease ==
    [][/\ ret'.op = "ProcessUpdate"
       /\ ret'.req.updateType = "REACTIVATE"
       /\ ret'.id \in DOMAIN validators
       /\ ret'.req.signer = validators[ret'.id].validatorPubKey
       /\ validators[ret'.id].status = "JAILED"
       => IF currentHeight < validators[ret'.id].jailReleaseHeight
          THEN ~ret'.ok /\ validators' = validators
          ELSE /\ ret'.ok
               /\ validators'[ret'.id].status = "ACTIVE"
               /\ validators'[ret'.id].jailReleaseHeight = 0]_vars

\* C14: no validator is Active at a height below its jail release height, whatever
\* signed updates (Deactivate, Reactivate, fee, name, stake) and ProcessBlock calls
\* followed the jailing.
NeverActiveBeforeRelease ==
    \A id \in DOMAIN validators :
       validators[id].status = "ACTIVE"
          => currentHeight >= validators[id].jailReleaseHeight

\* The bounds of C15 and what each operation does at them
FeeInRange(fee) == fee >= 0 /\ fee <= 10000

StoredFeesAndNamesInRange ==
    /\ \A id \in DOMAIN validators :
          /\ FeeInRange(validators[id].poolFeeRate)
          /\ validators[id].validatorName <= 64
    /\ \A id \in DOMAIN tsValidators : FeeInRange(tsValidators[id].poolFeeRate)

RegisterChecksFee ==
    ret'.op = "RegisterValidator"
       => IF ~FeeInRange(ret'.req.poolFeeRate) \/ ret'.req.validatorName > 64
          THEN ~ret'.ok /\ validators' = validators
          ELSE ret'.id \notin DOMAIN validators
                  => /\ ret'.ok
                     /\ ret'.id \in DOMAIN validators'
                     /\ validators'[ret'.id].poolFeeRate = ret'.req.poolFeeRate

UpdateChecksFeeAndName ==
    /\ ret'.op = "ProcessUpdate"
    /\ \/ ret'.req.updateType = "UPDATE_FEE" /\ ~FeeInRange(ret'.req.newValue)
       \/ ret'.req.updateType = "UPDATE_NAME" /\ ret'.req.newName > 64
    => ~ret'.ok /\ validators' = validators

TrustScoreChecksFee ==
    /\ ret'.op = "HMProcessValidatorRegistration" /\ ~FeeInRange(ret'.req.poolFeeRate)
          => ~ret'.ok /\ tsValidators' = tsValidators
    /\ ret'.op = "TSUpdatePoolFee" /\ ~FeeInRange(ret'.arg)
          => ~ret'.ok /\ tsValidators' = tsValidators

\* C15: every stored record, in the registry and in the trust scores, has a fee rate
\* in [0, 10000] and the registry's names are at most 64 long: registering at fee 0
\* and 10000 is accepted, at -1 and 10001 rejected, and a fee or name update (and
\* UpdatePoolFee) outside the bounds is rejected and changes no record.
FeesAndNamesStayInBounds ==
    /\ []StoredFeesAndNamesInRange
    /\ [][RegisterChecksFee /\ UpdateChecksFeeAndName /\ TrustScoreChecksFee]_vars

\* both ends of the range are stored in the registry and in the trust scores, and an
\* update to 10001 signed by the validator has just been refused
FeeBoundsReached ==
    /\ \E id \in DOMAIN validators : validators[id].poolFeeRate = 0
    /\ \E id \in DOMAIN validators : validators[id].poolFeeRate = 10000
    /\ \E id \in DOMAIN tsValidators : tsValidators[id].poolFeeRate = 0
    /\ \E id \in DOMAIN tsValidators : tsValidators[id].poolFeeRate = 10000
    /\ ret.op = "ProcessUpdate"
    /\ ret.id \in DOMAIN validators
    /\ ret.req.updateType = "UPDATE_FEE"
    /\ ret.req.newValue = 10001
    /\ ret.req.signer = validators[ret.id].validatorPubKey
    /\ ~ret.ok

\* C16: ProcessDelegation accepts a correctly signed request of at least the minimum
\* amount exactly when the validator exists with status Active or Pending (a Pending
\* validator is accepted); for an unknown, Inactive, Jailed or Unbonding validator it
\* returns false and changes nothing.
DelegationAcceptedForActiveOrPending ==
    [][/\ ret'.op = "ProcessDelegation"
       /\ DelegationRequestVerify(ret'.req)
       /\ ret'.req.amount >= MIN_DELEGATION_AMOUNT
       /\ ret'.id \notin DOMAIN delegations
       => IF /\ ret'.req.validatorId \in DOMAIN validators
             /\ validators[ret'.req.validatorId].status \in {"ACTIVE", "PENDING"}
          THEN ret'.ok /\ ret'.id \in DOMAIN delegations'
          ELSE ~ret'.ok /\ delegations' = delegations /\ validators' = validators]_vars

\* C17: ProcessUndelegation and ProcessRewardClaim verify the request's signature
\* against the delegator's key: a request signed with another key is rejected and
\* changes nothing.
ForgedRequestsRejected ==
    [][/\ ret'.op \in {"ProcessUndelegation", "ProcessRewardClaim"}
       /\ ret'.req.signer # ret'.req.delegatorId
       => /\ ret'.op = "ProcessUndelegation" => ~ret'.ok
          /\ ret'.value = 0
          /\ delegations' = delegations
          /\ validators' = validators]_vars

\* The records an undelegation step moves from Active to Unbonding, and the sum of
\* the amounts of a set of records
MovedToUnbonding ==
    { id \in DOMAIN delegations :
        delegations[id].status = "ACTIVE" /\ delegations'[id].status = "UNBONDING" }

RECURSIVE SumAmounts(_, _)
SumAmounts(ids, dels) ==
    IF ids = {} THEN 0
    ELSE LET id == CHOOSE x \in ids : TRUE
         IN  dels[id].amount + SumAmounts(ids \ {id}, dels)

\* C18: undelegation moves whole records: the decrease of the validator's
\* totalDelegated equals the sum of the amounts of exactly the records moved from
\* Active to Unbonding, each with unbondingStartHeight = the current height, also when
\* the requested amount is positive and smaller than a record; a request of amount 0
\* moves every Active record of the delegator with that validator.
UndelegationMovesWholeRecords ==
    [][/\ ret'.op = "ProcessUndelegation"
       /\ ret'.req.validatorId \in DOMAIN validators
       /\ validators[ret'.req.validatorId].totalDelegated
             = GetTotalDelegationForValidator(ret'.req.validatorId)
       => /\ validators[ret'.req.validatorId].totalDelegated
                - validators'[ret'.req.validatorId].totalDelegated
             = SumAmounts(MovedToUnbonding, delegations)
          /\ \A id \in MovedToUnbonding :
                delegations'[id].unbondingStartHeight = dlCurrentHeight
          /\ ret'.req.amount = 0
                => MovedToUnbonding =
                     { id \in DOMAIN delegations :
                         /\ delegations[id].status = "ACTIVE"
                         /\ delegations[id].delegatorId = ret'.req.delegatorId
                         /\ delegations[id].validatorId = ret'.req.validatorId }]_vars

\* The records a reward claim is about according to C19: the Active delegations of
\* the delegator, of the validator asked for when one is
ActiveClaimable(request) ==
    { id \in DOMAIN delegations :
        /\ delegations[id].delegatorId = request.delegatorId
        /\ delegations[id].status = "ACTIVE"
        /\ request.validatorId = NullId \/ delegations[id].validatorId = request.validatorId }

\* C19: ProcessRewardClaim returns the sum of pendingRewards over the Active
\* delegations of the delegator (of the validator asked for, when one is) and zeroes
\* exactly those; records that are not Active, of another delegator or of another
\* validator keep their pendingRewards and lastRewardHeight.
ClaimPaysActiveDelegationsOnly ==
    [][/\ ret'.op = "ProcessRewardClaim"
       /\ \A id \in DOMAIN delegations : delegations[id].pendingRewards >= 0
       => /\ ret'.value = SumPendingRewards(ActiveClaimable(ret'.req), delegations)
          /\ \A id \in ActiveClaimable(ret'.req) : delegations'[id].pendingRewards = 0
          /\ \A id \in DOMAIN delegations \ ActiveClaimable(ret'.req) :
                delegations'[id] = delegations[id]]_vars

\* The records of a delegator a claim with this request is for, whatever their status
ClaimableOf(request) ==
    { id \in DOMAIN delegations :
        /\ delegations[id].delegatorId = request.delegatorId
        /\ request.validatorId = NullId \/ delegations[id].validatorId = request.validatorId }

\* C20: of two consecutive ProcessRewardClaim calls for the same delegator and the
\* same validator filter, with nothing credited in between, the first returns all
\* that is pending and leaves nothing pending, the second returns 0 and changes no
\* record.
SecondClaimReturnsNothing ==
    [][ret'.op = "ProcessRewardClaim"
          => /\ (\A id \in DOMAIN delegations : delegations[id].pendingRewards >= 0)
                  => /\ ret'.value = SumPendingRewards(ClaimableOf(ret'.req), delegations)
                     /\ \A id \in ClaimableOf(ret'.req) :
                           delegations'[id].pendingRewards = 0
             /\ /\ ret.op = "ProcessRewardClaim"
                /\ ret.req.delegatorId = ret'.req.delegatorId
                /\ ret.req.validatorId = ret'.req.validatorId
                => ret'.value = 0 /\ delegations' = delegations]_vars

\* a claim that paid out has been repeated at once, and the repeat returned 0
ClaimedTwiceInARow ==
    /\ ret.op = "ProcessRewardClaim"
    /\ ret.prior > 0
    /\ ret.value = 0

\* The status ProcessBlock(height) must leave for a delegation record, and the
\* statuses that may follow one another
StatusAfterBlock(entry, height) ==
    IF entry.status = "PENDING" /\ height - entry.delegationHeight >= DELEGATION_MATURITY
    THEN "ACTIVE"
    ELSE IF /\ entry.status = "UNBONDING"
            /\ height - entry.unbondingStartHeight >= DELEGATION_UNBONDING_PERIOD
    THEN "WITHDRAWN"
    ELSE entry.status

StatusAdvance ==
    { <<"PENDING", "ACTIVE">>, <<"ACTIVE", "UNBONDING">>, <<"UNBONDING", "WITHDRAWN">> }

\* C21: ProcessBlock(h) moves a Pending delegation to Active exactly when
\* h - delegationHeight >= DELEGATION_MATURITY and an Unbonding one to Withdrawn
\* exactly when h - unbondingStartHeight >= DELEGATION_UNBONDING_PERIOD, and changes
\* no other status; under the Process* operations and ProcessBlock a status only
\* advances Pending -> Active -> Unbonding -> Withdrawn; unbondingStartHeight is the
\* height of the undelegation and stays while the record is Unbonding, so that no
\* record is Withdrawn earlier than the unbonding period after its undelegation.
DelegationStatusOnlyAdvances ==
    [][/\ \A id \in DOMAIN delegations :
             /\ id \in DOMAIN delegations'
             /\ ret'.op = "DLProcessBlock"
                   => delegations'[id].status =
                         StatusAfterBlock(delegations[id], dlCurrentHeight')
             /\ \/ delegations'[id].status = delegations[id].status
                \/ <<delegations[id].status, delegations'[id].status>> \in StatusAdvance
             /\ delegations[id].status = "ACTIVE" /\ delegations'[id].status = "UNBONDING"
                   => /\ ret'.op = "ProcessUndelegation"
                      /\ delegations'[id].unbondingStartHeight = dlCurrentHeight
             /\ delegations[id].status = "UNBONDING"
                   => delegations'[id].unbondingStartHeight
                         = delegations[id].unbondingStartHeight
       /\ \A id \in DOMAIN delegations' \ DOMAIN delegations :
             delegations'[id].status = "PENDING"]_vars

\* a block has just completed an unbonding, a full period after the undelegation
UnbondingCompleted ==
    /\ ret.op = "DLProcessBlock"
    /\ \E id \in DOMAIN delegations :
          /\ delegations[id].status = "WITHDRAWN"
          /\ delegations[id].unbondingStartHeight >= DELEGATION_MATURITY
          /\ dlCurrentHeight - delegations[id].unbondingStartHeight
                >= DELEGATION_UNBONDING_PERIOD

\* C22: serializing the ledger (or the registry) and deserializing the stream gives
\* the same record map, and the rebuilt indices (the id lists by delegator and by
\* validator, in their order, and the outpoint maps) equal those of the original.
ReloadReproducesMapsAndIndices ==
    [][/\ ret'.op = "DLUnserialize"
             => /\ delegations' = delegations
                /\ delegatorIndex' = delegatorIndex
                /\ validatorIndex' = validatorIndex
                /\ dlOutpointIndex' = dlOutpointIndex
       /\ ret'.op = "VRUnserialize"
             => validators' = validators /\ outpointIndex' = outpointIndex]_vars

\* C23: heartbeats are counted over the rolling uptime window: after every block
\* tick, a validator with heartbeatsExpected > 0 has heartbeatsReceived <=
\* heartbeatsExpected, so that its uptime is within [0, 1000], also once more than
\* nUptimeWindow blocks have passed since its registration.
ReceivedWithinExpected ==
    ret.op = "HMOnNewBlock"
       => \A id \in DOMAIN tsValidators :
             tsValidators[id].heartbeatsExpected > 0
                => /\ tsValidators[id].heartbeatsReceived
                         <= tsValidators[id].heartbeatsExpected
                   /\ GetUptimePercentage(tsValidators[id]) \in 0 .. 1000

\* The tier C24 describes: none for a validator that is not active or is below the
\* minimum stake, otherwise the highest tier whose threshold the uptime reaches
TierThreshold ==
    [tier \in {"BRONZE", "SILVER", "GOLD", "PLATINUM"} |->
       CASE tier = "BRONZE" -> 950 [] tier = "SILVER" -> 970
         [] tier = "GOLD" -> 990 [] tier = "PLATINUM" -> 999]

HighestTierReached(info) ==
    LET up == IF info.heartbeatsExpected = 0 THEN 1000
              ELSE (info.heartbeatsReceived * 1000) \div info.heartbeatsExpected
        reached == { tier \in DOMAIN TierThreshold : TierThreshold[tier] <= up }
    IN  IF ~info.isActive \/ info.stakeAmount < nMinValidatorStake \/ reached = {}
        THEN "NONE"
        ELSE CHOOSE tier \in reached :
                \A other \in reached : TierThreshold[other] <= TierThreshold[tier]

\* C24: the trust tier is a function of the current counters only: it is the highest
\* tier whose threshold is <= the uptime (an uptime equal to a threshold gives that
\* tier), and None for an inactive or under-staked validator; 9 heartbeats of 10 give
\* None and 10 of 10 give Platinum.
TierIsHighestReached ==
    ret.op = "GetValidatorTier" /\ ret.id \in DOMAIN tsValidators
       => LET info == tsValidators[ret.id]
              staked == info.isActive /\ info.stakeAmount >= nMinValidatorStake
          IN  /\ ret.value = HighestTierReached(info)
              /\ staked /\ info.heartbeatsExpected = 10 /\ info.heartbeatsReceived = 9
                    => ret.value = "NONE"
              /\ staked /\ info.heartbeatsExpected = 10 /\ info.heartbeatsReceived = 10
                    => ret.value = "PLATINUM"
              /\ staked /\ info.heartbeatsExpected = 1000
                    => /\ info.heartbeatsReceived = 949 => ret.value = "NONE"
                       /\ info.heartbeatsReceived = 950 => ret.value = "BRONZE"
                       /\ info.heartbeatsReceived = 969 => ret.value = "BRONZE"
                       /\ info.heartbeatsReceived = 970 => ret.value = "SILVER"
                       /\ info.heartbeatsReceived = 989 => ret.value = "SILVER"
                       /\ info.heartbeatsReceived = 990 => ret.value = "GOLD"
                       /\ info.heartbeatsReceived = 998 => ret.value = "GOLD"
                       /\ info.heartbeatsReceived = 999 => ret.value = "PLATINUM"

\* the tier of an active validator whose uptime is exactly the Gold threshold has
\* been asked for, and is Gold
GoldAtItsThreshold ==
    /\ ret.op = "GetValidatorTier"
    /\ ret.id \in DOMAIN tsValidators
    /\ tsValidators[ret.id].isActive
    /\ tsValidators[ret.id].stakeAmount >= nMinValidatorStake
    /\ tsValidators[ret.id].heartbeatsReceived = 990
    /\ tsValidators[ret.id].heartbeatsExpected = 1000
    /\ ret.value = "GOLD"

\* C25: TrustScoreManager's ProcessHeartbeat(hb, h) accepts exactly when the validator
\* is registered and active and h >= lastHeartbeatHeight + nHeartbeatInterval; an
\* accepted call adds one to heartbeatsReceived and sets lastHeartbeatHeight to h (so a
\* heartbeat at exactly last + interval is counted); a rejected call (one block too
\* early, unknown or inactive validator) changes no counter.
HeartbeatAcceptedWhenDue ==
    [][ret'.op = "TSProcessHeartbeat"
          => LET id == ret'.id
                 h == ret'.arg
                 due == /\ id \in DOMAIN tsValidators
                        /\ tsValidators[id].isActive
                        /\ h >= tsValidators[id].lastHeartbeatHeight + nHeartbeatInterval
             IN  /\ ret'.ok = due
                 /\ due => tsValidators' =
                              [tsValidators EXCEPT ![id] =
                                 [@ EXCEPT !.heartbeatsReceived = @ + 1,
                                           !.lastHeartbeatHeight = h]]
                 /\ ~due => tsValidators' = tsValidators
                 /\ id \in DOMAIN tsValidators /\ tsValidators[id].isActive
                       => /\ h = tsValidators[id].lastHeartbeatHeight + nHeartbeatInterval
                             => ret'.ok
                          /\ h = tsValidators[id].lastHeartbeatHeight
                                    + nHeartbeatInterval - 1
                             => ~ret'.ok]_vars

\* a second heartbeat was accepted at exactly the height of the first plus the interval
SecondHeartbeatAtTheInterval ==
    /\ ret.op = "TSProcessHeartbeat" /\ ret.ok
    /\ ret.arg = 2 * nHeartbeatInterval
    /\ tsValidators[ret.id].heartbeatsReceived = 2
    /\ tsValidators[ret.id].lastHeartbeatHeight = ret.arg

\* C26: a heartbeat that HeartbeatManager::ProcessHeartbeat has counted once and is
\* then handed again, whatever was processed in between (other heartbeats that evict
\* it from the seen set included), makes the call return false and leaves the
\* validator's heartbeatsReceived as the first call left it.
ReplayedHeartbeatCountedOnce ==
    [][ret'.op = "HMProcessHeartbeat" /\ counted # NoRequest
          /\ HeartbeatHash(ret'.req) = counted
          => /\ ret'.returned
             /\ ~ret'.ok
             /\ tsValidators'[ret'.id].heartbeatsReceived
                   = tsValidators[ret'.id].heartbeatsReceived]_vars

\* C27: HeartbeatManager::ProcessHeartbeat checks the heartbeat's signature against
\* the stored public key of its validator before it touches a counter: a heartbeat
\* with a bad signature, or from a validator with no stored key, is rejected and
\* changes neither the scorer's validators nor the known peers.
BadSignatureHeartbeatRejected ==
    [][ret'.op = "HMProcessHeartbeat" /\ ret'.returned
          /\ \/ ret'.req.validatorId \notin DOMAIN tsValidators
             \/ ~HeartbeatVerify(ret'.req, ret'.req.validatorId)
          => /\ ~ret'.ok
             /\ tsValidators' = tsValidators
             /\ knownValidatorPeers' = knownValidatorPeers]_vars

\* C28: the hash of a heartbeat enters m_seen_heartbeats only when the scorer has
\* accepted the heartbeat: a call of ProcessHeartbeat that the scorer refuses
\* (unknown or inactive validator, too early) leaves the hash out of the seen set.
SeenOnlyWhenAccepted ==
    [][ret'.op = "HMProcessHeartbeat"
          /\ HeartbeatHash(ret'.req) \in seenHeartbeats'
          /\ HeartbeatHash(ret'.req) \notin seenHeartbeats
          => ret'.ok]_vars

\* C29: after every completed operation of the heartbeat manager, ProcessHeartbeat
\* and BroadcastHeartbeat alike, m_seen_heartbeats holds at most MAX_SEEN_HEARTBEATS
\* hashes.
SeenSetBounded ==
    ret.returned => Cardinality(seenHeartbeats) <= MAX_SEEN_HEARTBEATS

\* C30: under every interleaving of two threads that each call
\* ShouldBroadcastHeartbeat(h) and then BroadcastHeartbeat(h, hash), at most one
\* heartbeat is created for a height h.
OneHeartbeatPerHeight ==
    \A i, j \in DOMAIN created :
        created[i].blockHeight = created[j].blockHeight => i = j

\* C31: on a node configured as a validator, OnNewBlock(h) for h a multiple of
\* nHeartbeatInterval with h - m_last_heartbeat_height >= nHeartbeatInterval creates
\* a signed heartbeat for h, whose hash is then in the seen set, and sets
\* m_last_heartbeat_height to h; at any other height it creates no heartbeat and
\* leaves m_last_heartbeat_height alone.
OnNewBlockBroadcastsWhenDue ==
    [][ret'.op = "HMOnNewBlock"
          => LET h == tsCurrentHeight'
                 due == /\ validatorKey # NullId
                        /\ h % nHeartbeatInterval = 0
                        /\ h - hmLastHeartbeatHeight >= nHeartbeatInterval
             IN  IF due
                 THEN /\ Len(created') = Len(created) + 1
                      /\ created'[Len(created')].blockHeight = h
                      /\ created'[Len(created')].signer = validatorKey
                      /\ HeartbeatHash(created'[Len(created')]) \in seenHeartbeats'
                      /\ hmLastHeartbeatHeight' = h
                 ELSE /\ created' = created
                      /\ hmLastHeartbeatHeight' = hmLastHeartbeatHeight]_vars

\* C32: after HeartbeatManager::ProcessValidatorRegistration has returned true for an
\* announcement the registry holds a record of that validator, in status Pending; an
\* announcement with a bad signature or a stake below the minimum registers nothing,
\* neither in the registry nor in the scorer.
AnnouncementReachesRegistry ==
    [][ret'.op = "HMProcessValidatorRegistration"
          => /\ ret'.ok
                => /\ ret'.id \in DOMAIN validators'
                   /\ validators'[ret'.id].status = "PENDING"
             /\ ~RegistrationVerify(ret'.req) \/ ret'.req.stakeAmount < nMinValidatorStake
                => /\ ~ret'.ok
                   /\ validators' = validators
                   /\ tsValidators' = tsValidators]_vars

\* C33: ProcessValidatorAddress is idempotent: for a valid address that is not known
\* it returns true and adds the address to knownValidatorPeers and pendingAdditions;
\* called again with the same address it returns false and changes neither set; for
\* an invalid address it returns false and changes nothing.
ProcessValidatorAddressIdempotent ==
    [][ret'.op = "ProcessValidatorAddress"
          => LET address == ret'.id
             IN  /\ IF IsValid(address) /\ address \notin knownValidatorPeers
                    THEN /\ ret'.ok
                         /\ knownValidatorPeers' = knownValidatorPeers \cup {address}
                         /\ pendingAdditions' = pendingAdditions \cup {address}
                    ELSE /\ ~ret'.ok
                         /\ knownValidatorPeers' = knownValidatorPeers
                         /\ pendingAdditions' = pendingAdditions
                 /\ ret.op = "ProcessValidatorAddress" /\ ret.id = address
                       => /\ ~ret'.ok
                          /\ knownValidatorPeers' = knownValidatorPeers
                          /\ pendingAdditions' = pendingAdditions]_vars

\* ProcessValidatorAddress has refused a valid address because it is known already
KnownAddressRefused ==
    /\ ret.op = "ProcessValidatorAddress"
    /\ IsValid(ret.id)
    /\ ~ret.ok
    /\ ret.id \in knownValidatorPeers

\* C34: GetPendingPeers returns the addresses that are pending and clears
\* pendingAdditions, so that a second call with no ProcessValidatorAddress in between
\* returns nothing; knownValidatorPeers is not changed by it.
DrainReturnsAndClearsPending ==
    [][ret'.op = "GetPendingPeers"
          => /\ ret'.value = pendingAdditions
             /\ pendingAdditions' = {}
             /\ knownValidatorPeers' = knownValidatorPeers
             /\ ret.op = "GetPendingPeers" => ret'.value = {}]_vars

\* C40: when ProcessHeartbeat accepts a heartbeat whose valid address is not yet a
\* known peer and a connection manager is set, the address is handed to AddNode once
\* and marked added: after the call it is a known peer and is not pending.  In every
\* state the pending addresses are known peers.
NewPeerHandedToConnman ==
    [][/\ ret'.op = "HMProcessHeartbeat" /\ ret'.ok
          /\ connman
          /\ IsValid(ret'.req.nodeAddress)
          /\ ret'.req.nodeAddress \notin knownValidatorPeers
          => /\ addedNodes' = Append(addedNodes, ret'.req.nodeAddress)
             /\ ret'.req.nodeAddress \in knownValidatorPeers'
             /\ ret'.req.nodeAddress \notin pendingAdditions'
             /\ pendingAdditions' \subseteq knownValidatorPeers']_vars

\* C37: DistributeBlockReward(V, S) always returns, for S # 0 as well: it never waits
\* for cs_delegations, which it holds, to be granted to it a second time.
DistributeBlockRewardReturns ==
    ret.op = "DistributeBlockReward" => ret.returned /\ ~dlDeadlocked

\* C38: HeartbeatManager::ProcessHeartbeat always returns, also for the heartbeat whose
\* hash makes the seen set exceed MAX_SEEN_HEARTBEATS: the eviction never waits for
\* cs_heartbeat, which the thread holds, to be granted to it a second time.
ProcessHeartbeatReturns ==
    ret.op = "HMProcessHeartbeat" => ret.returned /\ ~hmDeadlocked

\* C39: for every block reward and every stake and delegated amount the parameters
\* allow, the products blockReward * stakeAmount and blockReward * totalDelegated fit
\* the signed 64-bit amount, so that CalculateValidatorReward and
\* CalculateDelegatorsReward return the exact floor quotients.
RewardProductsFit ==
    reward.evaluated /\ reward.totalDelegated # 0
       => LET R == reward.blockReward
              T == reward.stakeAmount + reward.totalDelegated
              validatorStakeShare == (R * reward.stakeAmount) \div T
              delegatorsShare == (R * reward.totalDelegated) \div T
          IN  /\ R * reward.stakeAmount <= MAX_COIN_PRODUCT
              /\ R * reward.totalDelegated <= MAX_COIN_PRODUCT
              /\ reward.validatorReward =
                    validatorStakeShare
                       + ((R - validatorStakeShare) * reward.poolFeeRate) \div 10000
              /\ reward.delegatorsReward =
                    delegatorsShare - (delegatorsShare * reward.poolFeeRate) \div 10000


\* C35: no operation holds more than one of the components' mutexes (cs_validators,
\* cs_delegations, cs_heartbeat, cs_peers) at a time: the calls from the delegation
\* ledger into the validator registry, and from the heartbeat manager into peer
\* discovery, are made with the caller's own mutex released.
OneCoreMutexAtATime == Cardinality(ret.held) <= 1


---------------------------------------------------------------------------
(* Two threads calling the heartbeat manager: the validation thread (OnNewBlock)
   and a network thread (registrations and heartbeats of validator v1) *)

NextRace ==
    \/ \E thread \in Threads, height \in {nHeartbeatInterval, 2 * nHeartbeatInterval} :
          /\ height > tsCurrentHeight
          /\ EnterUpdateHeartbeatExpectations(thread, height)
    \/ \E thread \in Threads : LeaveUpdateHeartbeatExpectations(thread)
    \/ \E thread \in Threads, reg \in Registrations : EnterRegisterValidator(thread, reg)
    \/ \E thread \in Threads : LeaveRegisterValidator(thread)
    \/ \E thread \in Threads, heartbeat \in Heartbeats :
          /\ heartbeat.validatorId = "v1"
          /\ EnterProcessHeartbeat(thread, heartbeat)
    \/ \E thread \in Threads : LeaveProcessHeartbeat(thread)

SpecRace == Init /\ [][NextRace]_vars

\* C36: the scorer's state is protected by a mutex of its own: no two threads are
\* inside operations of the scorer at the same moment, so that the calls OnNewBlock,
\* ProcessValidatorRegistration and ProcessHeartbeat make into it exclude one another.
ScorerCallsExclude == Cardinality(InScorer) <= 1

=============================================================================
